---- MODULE Spec2Model ----
(***************************************************************************)
(* Browser fleet manager and execution scheduler.                          *)
(*                                                                         *)
(*   scripts/browser_manager/browser_manager.py      BrowserManager        *)
(*   scripts/browser_manager/playwright_executor.py  PlaywrightExecutor,   *)
(*                                                   BrowserScheduler      *)
(*   scripts/browser_manager/csv_import_utility.py   CSVImportUtility      *)
(*   scripts/fingerprint_tester/Attributes/tester.py                       *)
(*                                          AdvancedFingerprintTester      *)
(*                                                                         *)
(* The store is the `browsers` table; the executor keeps the dict          *)
(* active_browsers; the scheduler runs batches of sessions as asyncio      *)
(* tasks.  A task runs without interruption between two awaits, so every   *)
(* action below is the code between two awaits of one coroutine.           *)
(*                                                                         *)
(*   Spec, FairSpec   the scheduler loop and the sessions of its batches   *)
(*   StoreSpec        direct calls of the methods on the browsers table    *)
(*   CallSpec         direct calls of one session / one launch             *)
(*   CommandSpec      direct calls of the methods on the commands table    *)
(*   LoopSpec         the scheduler loop under every interval              *)
(*   BatchCommandSpec schedule_browser_batch's whole result                *)
(*   PlanSpec         generate_interaction_commands on stored rows         *)
(*   LaunchCommandSpec  the proxy a launch opens its context with          *)
(*   ImportSpec       the proxy imports of csv_import_utility.py           *)
(*   FingerprintSpec  the selectors of the fingerprint tester              *)
(*   CliSpec          the run-single command of main()                     *)
(*   ExecSpec         direct calls of execute_command                      *)
(*   ContinuousSpec   the scheduler loop, one action per iteration, fair   *)
(***************************************************************************)
EXTENDS Integers, Sequences, FiniteSets, TLC

\* ---------------------------------------------------------------- bounds
\* Number of rows of the browsers table.
NumBrowsers == 3
\* run_browser_batch's group_size.  The code fixes it to 10
\* (playwright_executor.py:264); the model runs the same loop with a
\* smaller group so that a batch is split over several groups.
group_size == 2
\* Length of the list generate_interaction_commands returns.  The code's
\* template has 14 commands (browser_manager.py:219-293); the session loop
\* is the same for every length.
PlanLen == 2
\* Number of run_browser_batch calls the scheduler loop is followed for.
MaxBatches == 2

\* ------------------------------------------------------ program constants
\* last_interaction of a row that was never touched (SQL NULL).
NULL == -1
\* The awaits of launch_browser before the session is registered:
\* playwright start, chromium.launch, new_context, new_page, overrides.
LaunchSteps == 5
\* The awaits of close_browser: context.close, browser.close, playwright.stop.
CloseSteps == 3
\* asyncio.sleep(60) after a failed batch.
BACKOFF_SECONDS == 60
\* asyncio.sleep(5) between two groups.
GROUP_PAUSE_SECONDS == 5
\* start_continuous_automation's default interval_minutes.
interval_minutes == 5

BrowserIds == 1..NumBrowsers

VARIABLES
    browsers,         \* the browsers table: browser_id -> row
    active_browsers,  \* PlaywrightExecutor.active_browsers (its keys)
    clock,            \* datetime.now(); isoformat() strings of one format compare as the times do
    running,          \* BrowserScheduler.running
    stop_requested,   \* stop_automation was called
    sched_pc,         \* where start_continuous_automation / run_browser_batch is
    batch_size,       \* the batch_size argument
    interval,         \* start_continuous_automation's interval_minutes argument
    browser_ids,      \* run_browser_batch's browser_ids
    i,                \* run_browser_batch's loop index i
    tasks,            \* the asyncio tasks of the current group (and any older one still running)
    groups,           \* the groups the current batch has spawned so far
    batches,          \* number of run_browser_batch calls so far
    failures,         \* consecutive batches an error escaped from
    batch_error,      \* where the last escaping error came from
    wait,             \* seconds of the sleep the loop is in
    commands,         \* the commands table, in rowid order
    now,              \* the wall clock the commands table is read against: <<day, second>>
    created,          \* the browser_ids create_browser has returned, in call order
    result,           \* what the last direct call of a BrowserManager / executor method gave its caller
    proxy_rows        \* the proxies table the CSV import fills, in rowid order

\* The variables of the scheduler and its sessions.
schedVars == <<active_browsers, running, stop_requested, sched_pc, batch_size, interval,
               browser_ids, i, tasks, groups, batches, failures, batch_error, wait>>

\* The variables only direct method calls use.
apiVars == <<commands, now, created, result, proxy_rows>>

vars == <<browsers, active_browsers, clock, running, stop_requested, sched_pc,
          batch_size, interval, browser_ids, i, tasks, groups, batches, failures,
          batch_error, wait, commands, now, created, result, proxy_rows>>

\* ------------------------------------------------------------- sequences
Range(s) == {s[n] : n \in DOMAIN s}

Min(a, b) == IF a <= b THEN a ELSE b

Injective(s) == \A m, n \in DOMAIN s : m # n => s[m] # s[n]

\* All sequences that list every member of S exactly once.
Perms(S) ==
    {s \in [1..Cardinality(S) -> S] : \A m, n \in 1..Cardinality(S) : m # n => s[m] # s[n]}

\* Python's s[a:b] with 0 <= a (0-based, b exclusive).
Slice(s, a, b) == SubSeq(s, a + 1, Min(b, Len(s)))

\* ------------------------------------------------------------- the store
Row(interact) == [to_interact |-> interact, status |-> "inactive", last_interaction |-> NULL]

\* Mutant of update_browser_status: the UPDATE has no WHERE clause.
update_browser_status_every_row(b, id, status) ==
    [x \in DOMAIN b |-> [b[x] EXCEPT !.status = status]]

\* UPDATE browsers SET status = ? WHERE browser_id = ?
update_browser_status(b, id, status) ==
    IF id \in DOMAIN b THEN [b EXCEPT ![id].status = status] ELSE b

\* UPDATE browsers SET last_interaction = ? WHERE browser_id = ?
update_browser_last_interaction(b, id, t) ==
    IF id \in DOMAIN b THEN [b EXCEPT ![id].last_interaction = t] ELSE b

\* Mutant of Eligible: the status filter is left out of the WHERE clause.
EligibleAnyStatus(b) == {id \in DOMAIN b : b[id].to_interact}

\* WHERE to_interact = 1 AND status != 'running'
Eligible(b) == {id \in DOMAIN b : b[id].to_interact /\ b[id].status # "running"}

\* Mutant of OrderLeq: ORDER BY last_interaction ASC NULLS LAST.
OrderLeqNullsLast(a, b) ==
    IF b = NULL THEN TRUE
    ELSE IF a = NULL THEN FALSE
    ELSE a <= b

\* ORDER BY last_interaction ASC NULLS FIRST: a may come before b.
OrderLeq(a, b) ==
    IF a = NULL THEN TRUE
    ELSE IF b = NULL THEN FALSE
    ELSE a <= b

\* Mutant of schedule_browser_batch: the SELECT joins another table and
\* returns each eligible row twice.
schedule_browser_batch_joined(b, limit) ==
    {Slice(s \o s, 0, limit) :
        s \in {p \in Perms(Eligible(b)) :
                 \A m, n \in DOMAIN p :
                    m < n => OrderLeq(b[p[m]].last_interaction, b[p[n]].last_interaction)}}

\* The results the SELECT of schedule_browser_batch can return: the eligible
\* rows in an order the ORDER BY allows (rows with equal keys come in an
\* order SQL leaves open), cut to LIMIT rows.
schedule_browser_batch(b, limit) ==
    {Slice(s, 0, limit) :
        s \in {p \in Perms(Eligible(b)) :
                 \A m, n \in DOMAIN p :
                    m < n => OrderLeq(b[p[m]].last_interaction, b[p[n]].last_interaction)}}

\* ------------------------------------------------------------ run_browser_batch
\* Mutant of MoreGroups: the for loop also tests self.running, so a stop
\* cuts the batch short.
MoreGroupsWhileRunning(ids, k) == running /\ k < Len(ids)

\* range(0, len(browser_ids), group_size) still has a value at i.
MoreGroups(ids, k) == k < Len(ids)

\* ids[k:k + g]
GroupOf(ids, k, g) == Slice(ids, k, k + g)

\* Mutant of Group: the slice has no upper end, browser_ids[i:].
GroupToEnd(ids, k) == Slice(ids, k, Len(ids))

\* group = browser_ids[i:i + group_size]
Group(ids, k) == GroupOf(ids, k, group_size)

\* Mutant of NextIndex: range(0, len(browser_ids)) with the default step.
NextIndexByOne(k) == k + 1

\* The step of range(0, len(browser_ids), group_size).
NextIndex(k) == k + group_size

\* The groups the for loop goes through from index k on, with group size g.
RECURSIVE GroupsFrom(_, _, _)
GroupsFrom(ids, k, g) ==
    IF MoreGroups(ids, k) THEN <<GroupOf(ids, k, g)>> \o GroupsFrom(ids, k + g, g) ELSE <<>>

\* Mutant of return_exceptions: asyncio.gather(*tasks).
return_exceptions_default == FALSE

\* asyncio.gather(*tasks, return_exceptions=True)
return_exceptions == TRUE

Terminal == {"done", "raised"}

\* A task of run_single_browser_session(id), created in group number g.
\*   pc, step   where the coroutine is suspended (launch / interact / close and
\*              the number of the awaited driver call or command)
\*   attempted  the commands execute_command was called for, in call order
\*   swallowed  a command before the last one failed inside execute_command
\*   launched   launch_browser returned
\*   touched    update_browser_last_interaction returned
\*   abort      what ended the try body early: "launch", "escape" (an
\*              exception after the launch), "command" (a command's exception
\*              leaving execute_command), or "none"
\*   li0        last_interaction of the row when the task was created
\*   entry      the coroutine the task runs: "session" for
\*              run_single_browser_session
NewTask(id, g, b) ==
    [browser_id |-> id, grp |-> g, pc |-> "created", step |-> 0,
     attempted |-> <<>>, swallowed |-> FALSE, launched |-> FALSE, touched |-> FALSE,
     abort |-> "none", li0 |-> b[id].last_interaction, entry |-> "session"]

InFlight == {j \in DOMAIN tasks : tasks[j].pc \notin Terminal}

\* The tasks the event loop still runs; a finished task is forgotten when the
\* list `tasks` is rebound.
Unfinished(ts) == SelectSeq(ts, LAMBDA t : t.pc \notin Terminal)

CurrentGroup == {j \in DOMAIN tasks : tasks[j].grp = Len(groups)}

\* Mutant of GatherComplete: asyncio.wait(tasks, return_when=FIRST_COMPLETED).
GatherFirstCompleted(ts, cur) == \E j \in cur : ts[j].pc \in Terminal

\* await asyncio.gather(*tasks): every awaited task has finished.
GatherComplete(ts, cur) == \A j \in cur : ts[j].pc \in Terminal

\* Mutant of BatchErrorHandler: the error ends the while loop.
BatchErrorEndsLoop == "exited"

\* except Exception in the while loop: the error is printed, the loop sleeps
\* and goes on.
BatchErrorHandler == "backoff"

\* No direct call has been made yet.
NoResult == [op |-> "none", id |-> 0, outcome |-> "ok", value |-> <<>>]

\* ------------------------------------------------------------------ Init
Init ==
    /\ browsers \in {[id \in BrowserIds |-> Row(f[id])] : f \in [BrowserIds -> BOOLEAN]}
    /\ active_browsers = {}
    /\ clock = 1
    /\ running = FALSE
    /\ stop_requested = FALSE
    /\ sched_pc = "init"
    /\ batch_size = 0
    /\ interval = interval_minutes
    /\ browser_ids = <<>>
    /\ i = 0
    /\ tasks = <<>>
    /\ groups = <<>>
    /\ batches = 0
    /\ failures = 0
    /\ batch_error = "none"
    /\ wait = 0
    /\ commands = <<>>
    /\ now = <<1, 0>>
    /\ created = <<>>
    /\ result = NoResult
    /\ proxy_rows = <<>>

\* ------------------------------------------------- start_continuous_automation
\* self.running = True, then the first test of `while self.running`.
\* batch_size (bs) is a count of rows, 0 or more.
Start(bs, im) ==
    /\ sched_pc = "init"
    /\ running' = TRUE
    /\ batch_size' = bs
    /\ interval' = im
    /\ sched_pc' = "loop_test"
    /\ UNCHANGED <<browsers, active_browsers, clock, stop_requested, browser_ids, i,
                   tasks, groups, batches, failures, batch_error, wait>>
    /\ UNCHANGED apiVars

\* while self.running: the loop body is entered, run_browser_batch is called.
LoopEnter ==
    /\ sched_pc = "loop_test"
    /\ running
    /\ batches < MaxBatches
    /\ batches' = batches + 1
    /\ sched_pc' = "select"
    /\ wait' = 0
    /\ UNCHANGED <<browsers, active_browsers, clock, running, stop_requested, batch_size, interval,
                   browser_ids, i, tasks, groups, failures, batch_error>>
    /\ UNCHANGED apiVars

\* while self.running: running is False, the coroutine returns.
LoopExit ==
    /\ sched_pc = "loop_test"
    /\ ~running
    /\ sched_pc' = "exited"
    /\ wait' = 0
    /\ UNCHANGED <<browsers, active_browsers, clock, running, stop_requested, batch_size, interval,
                   browser_ids, i, tasks, groups, batches, failures, batch_error>>
    /\ UNCHANGED apiVars

\* stop_automation(): called from outside the loop's coroutine.
Stop ==
    /\ sched_pc \notin {"init", "exited"}
    /\ running
    /\ running' = FALSE
    /\ stop_requested' = TRUE
    /\ UNCHANGED <<browsers, active_browsers, clock, sched_pc, batch_size, interval, browser_ids, i,
                   tasks, groups, batches, failures, batch_error, wait>>
    /\ UNCHANGED apiVars

\* run_browser_batch: schedule_browser_batch returned a list.
SelectOk ==
    /\ sched_pc = "select"
    /\ \E sel \in schedule_browser_batch(browsers, batch_size) :
          browser_ids' = sel
    /\ i' = 0
    /\ groups' = <<>>
    /\ tasks' = [n \in DOMAIN Unfinished(tasks) |-> [Unfinished(tasks)[n] EXCEPT !.grp = 0]]
    /\ sched_pc' = "group_test"
    /\ UNCHANGED <<browsers, active_browsers, clock, running, stop_requested, batch_size, interval,
                   batches, failures, batch_error, wait>>
    /\ UNCHANGED apiVars

\* run_browser_batch: schedule_browser_batch raised (sqlite3.Error); nothing in
\* run_browser_batch catches it, the loop's except clause does and sleeps 60 s.
SelectRaise ==
    /\ sched_pc = "select"
    /\ sched_pc' = BatchErrorHandler
    /\ batch_error' = "select"
    /\ failures' = failures + 1
    /\ wait' = BACKOFF_SECONDS
    /\ UNCHANGED <<browsers, active_browsers, clock, running, stop_requested, batch_size, interval,
                   browser_ids, i, tasks, groups, batches>>
    /\ UNCHANGED apiVars

\* for i in range(...): tasks = [], one task per member of the group, then gather.
SpawnGroup ==
    /\ sched_pc = "group_test"
    /\ MoreGroups(browser_ids, i)
    /\ LET group == Group(browser_ids, i)
       IN /\ groups' = Append(groups, group)
          /\ tasks' = Unfinished(tasks) \o [n \in 1..Len(group) |->
                                   NewTask(group[n], Len(groups) + 1, browsers)]
    /\ sched_pc' = "gather"
    /\ UNCHANGED <<browsers, active_browsers, clock, running, stop_requested, batch_size, interval,
                   browser_ids, i, batches, failures, batch_error, wait>>
    /\ UNCHANGED apiVars

\* The for loop is exhausted: run_browser_batch returns, the loop sleeps
\* interval_minutes * 60.
BatchDone ==
    /\ sched_pc = "group_test"
    /\ ~MoreGroups(browser_ids, i)
    /\ sched_pc' = "interval"
    /\ failures' = 0
    /\ batch_error' = "none"
    /\ wait' = interval * 60
    /\ UNCHANGED <<browsers, active_browsers, clock, running, stop_requested, batch_size, interval,
                   browser_ids, i, tasks, groups, batches>>
    /\ UNCHANGED apiVars

\* await asyncio.gather(*tasks, return_exceptions=True) is over.  With
\* return_exceptions it returns when every task of the group has finished,
\* then asyncio.sleep(5).  Without it, the first exception of a task is raised
\* at once and caught by the loop's except clause.
Gather ==
    /\ sched_pc = "gather"
    /\ IF ~return_exceptions /\ \E j \in CurrentGroup : tasks[j].pc = "raised"
       THEN /\ sched_pc' = BatchErrorHandler
            /\ batch_error' = "gather"
            /\ failures' = failures + 1
            /\ wait' = BACKOFF_SECONDS
       ELSE /\ GatherComplete(tasks, CurrentGroup)
            /\ sched_pc' = "group_sleep"
            /\ wait' = GROUP_PAUSE_SECONDS
            /\ UNCHANGED <<failures, batch_error>>
    /\ UNCHANGED <<browsers, active_browsers, clock, running, stop_requested, batch_size, interval,
                   browser_ids, i, tasks, groups, batches>>
    /\ UNCHANGED apiVars

\* asyncio.sleep(5) is over: the next value of i.
GroupSleep ==
    /\ sched_pc = "group_sleep"
    /\ i' = NextIndex(i)
    /\ sched_pc' = "group_test"
    /\ wait' = 0
    /\ UNCHANGED <<browsers, active_browsers, clock, running, stop_requested, batch_size, interval,
                   browser_ids, tasks, groups, batches, failures, batch_error>>
    /\ UNCHANGED apiVars

\* asyncio.sleep(interval_minutes * 60) or asyncio.sleep(60) is over.
SleepOver ==
    /\ sched_pc \in {"interval", "backoff"}
    /\ sched_pc' = "loop_test"
    /\ UNCHANGED <<browsers, active_browsers, clock, running, stop_requested, batch_size, interval,
                   browser_ids, i, tasks, groups, batches, failures, batch_error, wait>>
    /\ UNCHANGED apiVars

\* ------------------------------------------------- run_single_browser_session
\* Mutant of execute_command_swallows: execute_command has no try/except.
execute_command_propagates == FALSE

\* try/except Exception in execute_command: a failing command is printed and
\* does not leave execute_command.
execute_command_swallows == TRUE

\* Mutant of ExceptHandler: the handler also updates last_interaction.
ExceptHandlerTouches(b, id, t) == update_browser_last_interaction(b, id, t)

\* except Exception as e: print(...).  The handler writes nothing to the store.
ExceptHandler(b, id, t) == b

\* finally: await self.close_browser(browser_id), up to its first await:
\* with no entry in active_browsers close_browser returns at once.
EnterClose(t, active) ==
    IF t.browser_id \in active
    THEN [t EXCEPT !.pc = "close", !.step = 1]
    ELSE [t EXCEPT !.pc = "done", !.step = 0]

\* launch_browser raised.  In run_single_browser_session the except clause
\* prints the error and the finally clause calls close_browser; a caller of
\* launch_browser itself (the test-launch command) gets the exception, and so
\* does a caller of execute_command, which launches outside its try block.
LaunchRaised(t, active) ==
    IF t.entry \in {"launch", "command"}
    THEN [t EXCEPT !.pc = "raised", !.step = 0, !.abort = "launch"]
    ELSE EnterClose([t EXCEPT !.abort = "launch"], active)

\* launch_browser returned.  run_single_browser_session generates the plan
\* and awaits its first command; the test-launch command sleeps and calls
\* close_browser; execute_command reads the page and enters its try block.
Launched(t, active) ==
    IF t.entry = "launch"
    THEN EnterClose([t EXCEPT !.launched = TRUE], active)
    ELSE IF t.entry = "command"
    THEN [t EXCEPT !.pc = "command", !.step = 0, !.launched = TRUE]
    ELSE [t EXCEPT !.pc = "interact", !.step = 1, !.launched = TRUE, !.attempted = <<1>>]

\* Mutant of CloseStore: the status is written inside the try block, so only
\* when the driver calls succeeded.
CloseStoreInsideTry(b, id, ok) ==
    IF ok THEN update_browser_status(b, id, "inactive") ELSE b

\* close_browser after its try/except: the entry is deleted and the status is
\* written, whether the driver calls succeeded (ok) or not.
CloseStore(b, id, ok) == update_browser_status(b, id, "inactive")

\* The task starts: launch_browser calls generate_launch_command (ValueError
\* for an unknown id) and awaits async_playwright().start().
SessionBegin(j) ==
    /\ tasks[j].pc = "created"
    /\ IF tasks[j].browser_id \in DOMAIN browsers
       THEN /\ tasks' = [tasks EXCEPT ![j].pc = "launch", ![j].step = 1]
            /\ browsers' = browsers
       ELSE /\ tasks' = [tasks EXCEPT ![j] = LaunchRaised(@, active_browsers)]
            /\ browsers' = ExceptHandler(browsers, tasks[j].browser_id, clock)
    /\ UNCHANGED <<active_browsers, clock, running, stop_requested, sched_pc, batch_size, interval,
                   browser_ids, i, groups, batches, failures, batch_error, wait>>
    /\ UNCHANGED apiVars

\* One driver call of launch_browser succeeded; the next one is awaited.
LaunchOk(j) ==
    /\ tasks[j].pc = "launch"
    /\ tasks[j].step < LaunchSteps
    /\ tasks' = [tasks EXCEPT ![j].step = @ + 1]
    /\ UNCHANGED <<browsers, active_browsers, clock, running, stop_requested, sched_pc,
                   batch_size, interval, browser_ids, i, groups, batches, failures, batch_error, wait>>
    /\ UNCHANGED apiVars

\* A driver call of launch_browser raised: except, then finally.
LaunchFail(j) ==
    /\ tasks[j].pc = "launch"
    /\ tasks' = [tasks EXCEPT ![j] = LaunchRaised(@, active_browsers)]
    /\ browsers' = ExceptHandler(browsers, tasks[j].browser_id, clock)
    /\ UNCHANGED <<active_browsers, clock, running, stop_requested, sched_pc, batch_size, interval,
                   browser_ids, i, groups, batches, failures, batch_error, wait>>
    /\ UNCHANGED apiVars

\* The last driver call of launch_browser succeeded: the session is put in
\* active_browsers and the status 'running' is written (dbok: the UPDATE did
\* not raise); then the plan is generated and its first command is awaited.
LaunchFinish(j, dbok) ==
    /\ tasks[j].pc = "launch"
    /\ tasks[j].step = LaunchSteps
    /\ active_browsers' = active_browsers \cup {tasks[j].browser_id}
    /\ IF dbok
       THEN /\ browsers' = update_browser_status(browsers, tasks[j].browser_id, "running")
            /\ tasks' = [tasks EXCEPT ![j] = Launched(@, active_browsers')]
       ELSE /\ browsers' = ExceptHandler(browsers, tasks[j].browser_id, clock)
            /\ tasks' = [tasks EXCEPT ![j] = LaunchRaised(@, active_browsers')]
    /\ UNCHANGED <<clock, running, stop_requested, sched_pc, batch_size, interval,
                   browser_ids, i, groups, batches, failures, batch_error, wait>>
    /\ UNCHANGED apiVars

\* execute_command for command number step returned (ok: the driver calls of
\* the command succeeded) and the sleep after it is over.  swallowed records
\* that a command before the last one failed and the loop went on.  After the
\* last command update_browser_last_interaction is called (dbok: the UPDATE
\* did not raise), then finally.
CommandStep(j, ok, dbok) ==
    /\ tasks[j].pc = "interact"
    /\ LET t  == tasks[j]
           id == t.browser_id
           t1 == [t EXCEPT !.swallowed = @ \/ (~ok /\ execute_command_swallows
                                                    /\ t.step < PlanLen)]
       IN IF ~ok /\ ~execute_command_swallows
          THEN /\ tasks' = [tasks EXCEPT ![j] =
                              EnterClose([t1 EXCEPT !.abort = "command"], active_browsers)]
               /\ browsers' = ExceptHandler(browsers, id, clock)
               /\ clock' = clock
          ELSE IF t.step < PlanLen
          THEN /\ tasks' = [tasks EXCEPT ![j] =
                              [t1 EXCEPT !.step = @ + 1,
                                         !.attempted = Append(@, t.step + 1)]]
               /\ UNCHANGED <<browsers, clock>>
          ELSE IF dbok
          THEN /\ browsers' = update_browser_last_interaction(browsers, id, clock)
               /\ clock' = clock + 1
               /\ tasks' = [tasks EXCEPT ![j] =
                              EnterClose([t1 EXCEPT !.touched = TRUE], active_browsers)]
          ELSE /\ browsers' = ExceptHandler(browsers, id, clock)
               /\ clock' = clock
               /\ tasks' = [tasks EXCEPT ![j] =
                              EnterClose([t1 EXCEPT !.abort = "escape"], active_browsers)]
    /\ UNCHANGED <<active_browsers, running, stop_requested, sched_pc, batch_size, interval,
                   browser_ids, i, groups, batches, failures, batch_error, wait>>
    /\ UNCHANGED apiVars

\* An exception leaves the plan loop (raised outside execute_command's own
\* try): except, then finally.
BodyRaise(j) ==
    /\ tasks[j].pc = "interact"
    /\ tasks' = [tasks EXCEPT ![j] =
                    EnterClose([@ EXCEPT !.abort = "escape"], active_browsers)]
    /\ browsers' = ExceptHandler(browsers, tasks[j].browser_id, clock)
    /\ UNCHANGED <<active_browsers, clock, running, stop_requested, sched_pc, batch_size, interval,
                   browser_ids, i, groups, batches, failures, batch_error, wait>>
    /\ UNCHANGED apiVars

\* One driver call of close_browser succeeded; the next one is awaited.
CloseOk(j) ==
    /\ tasks[j].pc = "close"
    /\ tasks[j].step < CloseSteps
    /\ tasks' = [tasks EXCEPT ![j].step = @ + 1]
    /\ UNCHANGED <<browsers, active_browsers, clock, running, stop_requested, sched_pc,
                   batch_size, interval, browser_ids, i, groups, batches, failures, batch_error, wait>>
    /\ UNCHANGED apiVars

\* close_browser's try block ends: its last driver call succeeded (ok) or one
\* of its driver calls raised and was printed (~ok).  Then del
\* active_browsers[browser_id] and the status write (dbok: the UPDATE did not
\* raise; if it raises the exception leaves run_single_browser_session).
CloseFinish(j, ok, dbok) ==
    /\ tasks[j].pc = "close"
    /\ ok => tasks[j].step = CloseSteps
    /\ active_browsers' = active_browsers \ {tasks[j].browser_id}
    /\ IF dbok
       THEN /\ browsers' = CloseStore(browsers, tasks[j].browser_id, ok)
            /\ tasks' = [tasks EXCEPT ![j].pc = "done", ![j].step = 0]
       ELSE /\ browsers' = browsers
            /\ tasks' = [tasks EXCEPT ![j].pc = "raised", ![j].step = 0]
    /\ UNCHANGED <<clock, running, stop_requested, sched_pc, batch_size, interval,
                   browser_ids, i, groups, batches, failures, batch_error, wait>>
    /\ UNCHANGED apiVars

\* ------------------------------------------------------------------ Next
Next ==
    \/ \E bs \in 0..NumBrowsers : Start(bs, interval_minutes)
    \/ LoopEnter
    \/ LoopExit
    \/ Stop
    \/ SelectOk
    \/ SelectRaise
    \/ SpawnGroup
    \/ BatchDone
    \/ Gather
    \/ GroupSleep
    \/ SleepOver
    \/ \E j \in DOMAIN tasks : SessionBegin(j)
    \/ \E j \in DOMAIN tasks : LaunchOk(j)
    \/ \E j \in DOMAIN tasks : LaunchFail(j)
    \/ \E j \in DOMAIN tasks, dbok \in BOOLEAN : LaunchFinish(j, dbok)
    \/ \E j \in DOMAIN tasks, ok \in BOOLEAN, dbok \in BOOLEAN : CommandStep(j, ok, dbok)
    \/ \E j \in DOMAIN tasks : BodyRaise(j)
    \/ \E j \in DOMAIN tasks : CloseOk(j)
    \/ \E j \in DOMAIN tasks, ok \in BOOLEAN, dbok \in BOOLEAN : CloseFinish(j, ok, dbok)

Spec == Init /\ [][Next]_vars

\* The event loop runs every coroutine that is ready: a sleep ends, an awaited
\* driver call returns or raises, a finished gather resumes its caller.  Only
\* the stop_automation call is left to the environment.
FairSpec == Spec /\ WF_vars(Next /\ UNCHANGED stop_requested)

\* ------------------------------------------- direct calls: the browsers table
\* The methods of BrowserManager and the two update methods of the executor,
\* called one after another by a caller (the CLI, the CSV import, a script).
\* Each call is one action: the methods are synchronous.

\* Number of values uuid.uuid4() can return.  Two calls of the code draw from
\* 2^122 values; the model draws from a few so that a repeated draw happens.
NumUuids == 2
\* Number of update_browser_last_interaction calls followed.
MaxTouches == 2
\* Number of entries of the viewports list random.choice draws from (the
\* first ones; the list has 5).
NumViewports == 2

UUIDs == 1..NumUuids

\* Rows of the proxies and accounts tables (made by the CSV import).
ProxyIds == {1}
AccountIds == {1}

\* The (proxy_id, email_account_id) arguments of create_browser: none, rows
\* that exist, a proxy that does not, an account that does not.
ForeignKeys == {<<NULL, NULL>>, <<1, 1>>, <<2, 1>>, <<1, 2>>}

\* generate_fingerprint's list of viewports.
viewports == <<<<1920, 1080>>, <<1366, 768>>, <<1440, 900>>, <<1536, 864>>, <<1280, 720>>>>

\* Mutant of generate_fingerprint: the screen descriptor is drawn on its own
\* (here: always the first entry) instead of copied from the viewport.
generate_fingerprint_own_screen(v) ==
    [viewport |-> [width |-> viewports[v][1], height |-> viewports[v][2]],
     screen   |-> [width |-> viewports[1][1], height |-> viewports[1][2]]]

\* generate_fingerprint, with v the index random.choice(viewports) picked.
\* Only the two descriptors that carry sizes are kept.
generate_fingerprint(v) ==
    [viewport |-> [width |-> viewports[v][1], height |-> viewports[v][2]],
     screen   |-> [width |-> viewports[v][1], height |-> viewports[v][2]]]

\* Mutant of UniqueViolation: the column is not declared UNIQUE.
NoUniqueConstraint(b, id) == FALSE

\* browser_id TEXT UNIQUE NOT NULL: the INSERT raises sqlite3.IntegrityError.
UniqueViolation(b, id) == id \in DOMAIN b

\* The row create_browser's INSERT writes; status and last_interaction take
\* the column defaults.  json.dumps(fingerprint) is kept as the dict it
\* loads back to.
InsertedRow(name, fk, interact, fp) ==
    [name |-> name, proxy_id |-> fk[1], email_account_id |-> fk[2],
     fingerprint |-> fp, to_interact |-> interact,
     status |-> "inactive", last_interaction |-> NULL,
     viewport_width |-> fp.viewport.width, viewport_height |-> fp.viewport.height]

\* The table after the INSERT of row r under browser_id id.
Insert(b, id, r) == [x \in DOMAIN b \cup {id} |-> IF x = id THEN r ELSE b[x]]

\* Mutant of RejectedInsert: INSERT OR REPLACE.
ReplacingInsert(b, id, r) == Insert(b, id, r)

\* The table after an INSERT that raised sqlite3.IntegrityError: the
\* statement wrote nothing and commit() is never reached.
RejectedInsert(b, id, r) == b

\* An empty database, no call made.
StoreInit ==
    /\ browsers = <<>>
    /\ active_browsers = {}
    /\ clock = 1
    /\ running = FALSE
    /\ stop_requested = FALSE
    /\ sched_pc = "init"
    /\ batch_size = 0
    /\ interval = interval_minutes
    /\ browser_ids = <<>>
    /\ i = 0
    /\ tasks = <<>>
    /\ groups = <<>>
    /\ batches = 0
    /\ failures = 0
    /\ batch_error = "none"
    /\ wait = 0
    /\ commands = <<>>
    /\ now = <<1, 0>>
    /\ created = <<>>
    /\ result = NoResult
    /\ proxy_rows = <<>>

\* create_browser(name, proxy_id, email_account_id, to_interact): uuid4 gave
\* id, random.choice(viewports) gave entry v.  A UNIQUE violation leaves
\* execute() as an exception before commit(); otherwise the row is committed
\* and the id returned.  Neither foreign id is looked up.
create_browser(id, name, fk, interact, v) ==
    /\ IF UniqueViolation(browsers, id)
       THEN /\ result' = [op |-> "create_browser", id |-> id,
                          outcome |-> "IntegrityError", value |-> <<>>]
            /\ browsers' = RejectedInsert(browsers, id,
                                          InsertedRow(name, fk, interact, generate_fingerprint(v)))
            /\ created' = created
       ELSE /\ browsers' = Insert(browsers, id,
                                  InsertedRow(name, fk, interact, generate_fingerprint(v)))
            /\ created' = Append(created, id)
            /\ result' = [op |-> "create_browser", id |-> id,
                          outcome |-> "ok", value |-> <<id>>]
    /\ UNCHANGED <<clock, commands, now>>
    /\ UNCHANGED proxy_rows
    /\ UNCHANGED schedVars

\* update_browser_status(browser_id, status), called directly.  An UPDATE
\* that matches no row changes nothing and raises nothing.
UpdateStatus(id, status) ==
    /\ browsers' = update_browser_status(browsers, id, status)
    /\ result' = [op |-> "update_browser_status", id |-> id, outcome |-> "ok", value |-> <<>>]
    /\ UNCHANGED <<clock, commands, now, created>>
    /\ UNCHANGED proxy_rows
    /\ UNCHANGED schedVars

\* update_browser_last_interaction(browser_id), called directly.
UpdateLastInteraction(id) ==
    /\ clock <= MaxTouches
    /\ browsers' = update_browser_last_interaction(browsers, id, clock)
    /\ clock' = clock + 1
    /\ result' = [op |-> "update_browser_last_interaction", id |-> id,
                  outcome |-> "ok", value |-> <<>>]
    /\ UNCHANGED <<commands, now, created>>
    /\ UNCHANGED proxy_rows
    /\ UNCHANGED schedVars

\* schedule_browser_batch(batch_size), called directly: a SELECT, then the
\* connection is closed.
ScheduleBatch(limit) ==
    /\ \E sel \in schedule_browser_batch(browsers, limit) :
          result' = [op |-> "schedule_browser_batch", id |-> limit,
                     outcome |-> "ok", value |-> sel]
    /\ UNCHANGED <<browsers, clock, commands, now, created>>
    /\ UNCHANGED proxy_rows
    /\ UNCHANGED schedVars

StoreNext ==
    \/ \E id \in UUIDs, fk \in ForeignKeys, interact \in BOOLEAN, v \in 1..NumViewports :
          create_browser(id, "Browser_1", fk, interact, v)
    \/ \E id \in UUIDs, status \in {"inactive", "running"} : UpdateStatus(id, status)
    \/ \E id \in UUIDs : UpdateLastInteraction(id)
    \/ \E limit \in 0..NumUuids : ScheduleBatch(limit)

StoreSpec == StoreInit /\ [][StoreNext]_vars

\* ------------------------------------------------- direct calls: one session
\* run_single_browser_session(browser_id) or launch_browser(browser_id)
\* awaited by a caller of its own (a script; the test-launch command), one
\* call at a time, with any browser_id the caller likes.

\* Number of such calls followed.
MaxCalls == 2

\* A browser_id no row has.
UnknownId == NumBrowsers + 1

\* The task of a direct call.
DirectTask(id, entry, b) ==
    [browser_id |-> id, grp |-> 0, pc |-> "created", step |-> 0,
     attempted |-> <<>>, swallowed |-> FALSE, launched |-> FALSE, touched |-> FALSE,
     abort |-> "none",
     li0 |-> IF id \in DOMAIN b THEN b[id].last_interaction ELSE NULL,
     entry |-> entry]

Call(id, entry) ==
    /\ InFlight = {}
    /\ Len(tasks) < MaxCalls
    /\ tasks' = Append(tasks, DirectTask(id, entry, browsers))
    /\ UNCHANGED <<browsers, active_browsers, clock, running, stop_requested, sched_pc,
                   batch_size, interval, browser_ids, i, groups, batches, failures, batch_error, wait>>
    /\ UNCHANGED apiVars

CallNext ==
    \/ \E id \in BrowserIds \cup {UnknownId}, entry \in {"session", "launch"} : Call(id, entry)
    \/ \E j \in DOMAIN tasks : SessionBegin(j)
    \/ \E j \in DOMAIN tasks : LaunchOk(j)
    \/ \E j \in DOMAIN tasks : LaunchFail(j)
    \/ \E j \in DOMAIN tasks, dbok \in BOOLEAN : LaunchFinish(j, dbok)
    \/ \E j \in DOMAIN tasks, ok \in BOOLEAN, dbok \in BOOLEAN : CommandStep(j, ok, dbok)
    \/ \E j \in DOMAIN tasks : BodyRaise(j)
    \/ \E j \in DOMAIN tasks : CloseOk(j)
    \/ \E j \in DOMAIN tasks, ok \in BOOLEAN, dbok \in BOOLEAN : CloseFinish(j, ok, dbok)

CallSpec == Init /\ [][CallNext]_vars

\* ------------------------------------------- direct calls: the commands table
\* save_command and get_pending_commands, called one after another while the
\* wall clock advances.  A time is <<day, second of the day>>; the machine's
\* local time is taken to be UTC.

\* Days and seconds of a day the clock and the scheduled times range over.
MaxDay == 2
MaxSecond == 1
\* Number of rows save_command is followed for.
MaxCommands == 2

\* The character between date and time: 'T' in datetime.isoformat(), a space
\* in SQLite's datetime('now') (their code points).
SEP_T == 84
SEP_SPACE == 32

Times == (1..MaxDay) \X (0..MaxSecond)

\* scheduled_time=None, stored as SQL NULL.
None == <<>>

\* scheduled_time.isoformat(): 'YYYY-MM-DDTHH:MM:SS' as date, separator, time.
isoformat(t) == <<t[1], SEP_T, t[2]>>

\* SQLite's datetime('now'): 'YYYY-MM-DD HH:MM:SS'.
datetime_now(t) == <<t[1], SEP_SPACE, t[2]>>

\* The datetime a stored text stands for (datetime.fromisoformat).
fromisoformat(x) == <<x[1], x[3]>>

TimeLeq(a, b) == a[1] < b[1] \/ (a[1] = b[1] /\ a[2] <= b[2])

\* a <= b for two TEXT values of the scheduled_time column: SQLite compares
\* them character by character; date and time parts have a fixed width.
TextLeq(a, b) ==
    \/ a[1] < b[1]
    \/ a[1] = b[1] /\ a[2] < b[2]
    \/ a[1] = b[1] /\ a[2] = b[2] /\ a[3] <= b[3]

\* ORDER BY scheduled_time ASC: NULLs come first.
ScheduledLeq(a, b) ==
    IF a = None THEN TRUE
    ELSE IF b = None THEN FALSE
    ELSE TextLeq(a, b)

\* WHERE status = 'pending' AND
\*       (scheduled_time IS NULL OR scheduled_time <= datetime('now'))
PendingDue(cs, t) ==
    {n \in DOMAIN cs :
        /\ cs[n].status = "pending"
        /\ (cs[n].scheduled_time = None \/ TextLeq(cs[n].scheduled_time, datetime_now(t)))}

\* The row lists get_pending_commands() can return (rowids of the commands).
get_pending_commands(cs, t) ==
    {p \in Perms(PendingDue(cs, t)) :
        \A m, n \in DOMAIN p :
            m < n => ScheduledLeq(cs[p[m]].scheduled_time, cs[p[n]].scheduled_time)}

\* save_command(browser_id, command_type, command_data, scheduled_time):
\* status takes the column default 'pending'.
save_command(id, t) ==
    /\ Len(commands) < MaxCommands
    /\ commands' = Append(commands,
                          [browser_id |-> id, status |-> "pending",
                           scheduled_time |-> IF t = None THEN None ELSE isoformat(t)])
    /\ result' = [op |-> "save_command", id |-> id, outcome |-> "ok", value |-> <<>>]
    /\ UNCHANGED <<browsers, clock, now, created>>
    /\ UNCHANGED proxy_rows
    /\ UNCHANGED schedVars

\* get_pending_commands() without a browser_id.
GetPending ==
    /\ \E rows \in get_pending_commands(commands, now) :
          result' = [op |-> "get_pending_commands", id |-> 0, outcome |-> "ok", value |-> rows]
    /\ UNCHANGED <<browsers, clock, commands, now, created>>
    /\ UNCHANGED proxy_rows
    /\ UNCHANGED schedVars

\* Time passes: the next second, or the first second of the next day.
Tick ==
    /\ \/ now[2] < MaxSecond /\ now' = <<now[1], now[2] + 1>>
       \/ now[1] < MaxDay /\ now' = <<now[1] + 1, 0>>
    /\ UNCHANGED <<browsers, clock, commands, created, result>>
    /\ UNCHANGED proxy_rows
    /\ UNCHANGED schedVars

CommandNext ==
    \/ \E id \in BrowserIds, t \in Times \cup {None} : save_command(id, t)
    \/ GetPending
    \/ Tick

CommandSpec == Init /\ [][CommandNext]_vars

\* ================================================================ claims
\* The moment right after schedule_browser_batch returned: no task of the new
\* batch exists yet and the store is as the SELECT saw it.
JustSelected == sched_pc = "group_test" /\ i = 0

LastOf(id) == browsers[id].last_interaction

\* s lists 1, 2, ..., Len(s).
Counting(s) == \A n \in DOMAIN s : s[n] = n

RECURSIVE Flatten(_)
Flatten(ss) == IF ss = <<>> THEN <<>> ELSE Head(ss) \o Flatten(Tail(ss))

CeilDiv(a, b) == (a + b - 1) \div b

C2_SelectedAreEligible ==
    JustSelected =>
        \A n \in DOMAIN browser_ids :
            /\ browsers[browser_ids[n]].to_interact
            /\ browsers[browser_ids[n]].status # "running"

\* C2 witness: a non-empty selection was made from a store that holds a row
\* with status 'running' that is to_interact, and a row that is not to_interact.
C2_Witness ==
    /\ JustSelected
    /\ browser_ids # <<>>
    /\ \E id \in BrowserIds : browsers[id].to_interact /\ browsers[id].status = "running"
    /\ \E id \in BrowserIds : ~browsers[id].to_interact

\* C3: the selection is the first min(limit, number of eligible) identities of
\* the eligible rows, never-interacted ones first, then ascending by
\* last_interaction, and no identity twice.
C3_SelectionOrderedAndCut ==
    JustSelected =>
        LET E == {id \in BrowserIds :
                    browsers[id].to_interact /\ browsers[id].status # "running"}
            Before(x, y) == x = NULL \/ (y # NULL /\ x <= y)
        IN /\ Len(browser_ids) = Min(batch_size, Cardinality(E))
           /\ Range(browser_ids) \subseteq E
           /\ Injective(browser_ids)
           /\ \A m, n \in DOMAIN browser_ids :
                 m < n => Before(LastOf(browser_ids[m]), LastOf(browser_ids[n]))
           /\ \A n \in DOMAIN browser_ids :
                 \A id \in E \ Range(browser_ids) : Before(LastOf(browser_ids[n]), LastOf(id))

\* C3 witness: a selection of two, a never-run identity first and an
\* interacted one second, with a more recently interacted eligible identity
\* cut off by the limit.
C3_Witness ==
    /\ JustSelected
    /\ Len(browser_ids) = 2
    /\ LastOf(browser_ids[1]) = NULL
    /\ LastOf(browser_ids[2]) # NULL
    /\ \E id \in BrowserIds \ Range(browser_ids) :
          /\ browsers[id].to_interact /\ browsers[id].status # "running"
          /\ LastOf(id) > LastOf(browser_ids[2])

\* C4: the number of sessions started and not yet returned never exceeds
\* group_size.
C4_AtMostGroupSizeInFlight == Cardinality(InFlight) <= group_size

\* C4 witness: a batch larger than a group has group_size sessions in flight,
\* all of them past their launch.
C4_Witness ==
    /\ Len(browser_ids) > group_size
    /\ Cardinality({j \in DOMAIN tasks : tasks[j].pc = "interact"}) = group_size

\* C5: the groups run so far are the leading contiguous chunks of group_size
\* identities of the selection, in selection order; when the batch returns
\* there are ceil(B / group_size) of them, all but possibly the last of
\* exactly group_size members; an empty selection gives no group and no
\* session; 25 identities in groups of 10 give groups of 10, 10 and 5.
C5_GroupsPartitionSelection ==
    /\ sched_pc \in {"group_test", "gather", "group_sleep", "interval"} =>
          /\ \A g \in DOMAIN groups :
                groups[g] = SubSeq(browser_ids, (g - 1) * group_size + 1,
                                   Min(g * group_size, Len(browser_ids)))
          /\ Len(groups) <= CeilDiv(Len(browser_ids), group_size)
    /\ sched_pc = "interval" =>
          /\ Len(groups) = CeilDiv(Len(browser_ids), group_size)
          /\ Flatten(groups) = browser_ids
          /\ \A g \in 1..(Len(groups) - 1) : Len(groups[g]) = group_size
          /\ browser_ids = <<>> => groups = <<>> /\ tasks = <<>>
    /\ LET gs == GroupsFrom([n \in 1..25 |-> n], 0, 10)
       IN /\ [g \in DOMAIN gs |-> Len(gs[g])] = <<10, 10, 5>>
          /\ Flatten(gs) = [n \in 1..25 |-> n]

\* C5 witness: a finished batch that ran a full group and then a shorter one.
C5_Witness ==
    /\ sched_pc = "interval"
    /\ Len(groups) = 2
    /\ Len(groups[1]) = group_size
    /\ Len(groups[2]) < group_size

\* C6: no session of a later group exists before every session of each earlier
\* group has returned or raised.
C6_GroupsOneAfterAnother ==
    \A j, k \in DOMAIN tasks :
        tasks[j].grp < tasks[k].grp => tasks[j].pc \in Terminal

\* C6 witness: a session of the second group is running after a first group in
\* which one session succeeded and another one failed.
C6_Witness ==
    /\ Len(groups) = 2
    /\ \E j \in DOMAIN tasks : tasks[j].grp = 2 /\ tasks[j].pc = "launch"
    /\ \E m, n \in DOMAIN groups[1] :
          LastOf(groups[1][m]) = NULL /\ LastOf(groups[1][n]) # NULL

\* C7: in a session the commands are attempted once each and in plan order; a
\* failing command does not end the session, the later commands are attempted
\* and last_interaction is updated.
C7_CommandsInOrderFailuresSwallowed ==
    \A j \in DOMAIN tasks :
        LET t == tasks[j]
        IN /\ Counting(t.attempted)
           /\ t.swallowed => Len(t.attempted) >= 2
           /\ t.abort # "command"
           /\ (t.pc \in {"close", "done", "raised"} /\ t.launched /\ t.abort = "none") =>
                 /\ Len(t.attempted) = PlanLen
                 /\ t.touched
                 /\ LastOf(t.browser_id) # t.li0

\* C7 witness: a session in which a command before the last one failed has
\* attempted the whole plan, has updated last_interaction and has returned.
C7_Witness ==
    \E j \in DOMAIN tasks :
        /\ tasks[j].pc = "done"
        /\ tasks[j].swallowed
        /\ Len(tasks[j].attempted) = PlanLen
        /\ tasks[j].touched
        /\ LastOf(tasks[j].browser_id) # tasks[j].li0

\* C8: last_interaction of an identity is written only by a step of a session
\* of that identity that launched and finishes the last command of its plan;
\* a session whose launch failed or that was aborted never writes it.
C8_LastInteractionOnlyOnCompletion ==
    [][\A id \in BrowserIds :
          browsers'[id].last_interaction # browsers[id].last_interaction =>
             \E j \in DOMAIN tasks :
                /\ tasks[j].browser_id = id
                /\ tasks[j].pc = "interact"
                /\ tasks[j].launched
                /\ tasks[j].step = PlanLen
                /\ Len(tasks[j].attempted) = PlanLen
                /\ j \in DOMAIN tasks'
                /\ tasks'[j].touched
                /\ tasks'[j].abort = "none"]_vars

\* C8 witness: a session aborted after its launch and a session whose launch
\* failed have ended with last_interaction as it was, next to one that
\* completed.
C8_Witness ==
    /\ \E j \in DOMAIN tasks :
          /\ tasks[j].pc \in Terminal /\ tasks[j].abort = "escape"
          /\ LastOf(tasks[j].browser_id) = tasks[j].li0
    /\ \E j \in DOMAIN tasks :
          /\ tasks[j].pc \in Terminal /\ tasks[j].abort = "launch"
          /\ LastOf(tasks[j].browser_id) = tasks[j].li0
    /\ \E id \in BrowserIds : LastOf(id) # NULL

\* C9: whatever sessions fail, also with an exception raised by close_browser,
\* no error leaves gather; when run_browser_batch returns a session was
\* started for every selected identity and all of them have ended.
C9_BatchSurvivesSessionFailures ==
    /\ batch_error # "gather"
    /\ sched_pc \in {"group_sleep", "interval"} =>
          \A j \in DOMAIN tasks : tasks[j].pc \in Terminal
    /\ sched_pc = "interval" => Flatten(groups) = browser_ids

\* C9 witness: run_browser_batch has returned after a group in which one
\* session raised from close_browser and the other one completed its plan.
C9_Witness ==
    /\ sched_pc = "interval"
    /\ \E j, k \in DOMAIN tasks :
          /\ tasks[j].pc = "raised"
          /\ tasks[k].pc = "done" /\ tasks[k].touched /\ tasks[k].grp = tasks[j].grp

\* C10: an error that escapes a batch does not end the loop: the loop sleeps
\* the fixed backoff, then tests running again and, with no stop requested,
\* calls run_browser_batch again, also after several failing batches in a row.
C10_LoopSurvivesBatchError ==
    /\ sched_pc = "exited" => stop_requested
    /\ failures >= 1 => sched_pc # "init"
    /\ sched_pc = "backoff" =>
          /\ failures >= 1
          /\ wait = BACKOFF_SECONDS
          /\ ENABLED SleepOver
    /\ (sched_pc = "loop_test" /\ failures >= 1 /\ running /\ batches < MaxBatches) =>
          /\ ENABLED LoopEnter
          /\ ~ENABLED LoopExit

\* C10 witness: the batch started after a failed batch has failed too, and the
\* loop is in its backoff sleep again, still running.
C10_Witness ==
    /\ failures = 2
    /\ sched_pc = "backoff"
    /\ running
    /\ ~stop_requested

\* What a step may do around a stop_automation call: the call itself changes
\* nothing of the batch in progress, and after it no batch is started.
StopDiscipline ==
    /\ (~stop_requested /\ stop_requested') =>
          UNCHANGED <<browsers, active_browsers, sched_pc, browser_ids, i,
                      tasks, groups, batches>>
    /\ stop_requested =>
          /\ stop_requested' /\ ~running'
          /\ batches' = batches

\* C11: stop_automation only clears the running flag.  A call made while a
\* batch is in progress changes nothing of that batch; afterwards no batch is
\* started any more, the loop always has a step to take until it has
\* exited, which it eventually does, and when it exits every group of the last
\* batch has been spawned and no session is still in flight.  The loop exits
\* only after a stop call.
C11_StopLetsBatchFinish ==
    /\ [](sched_pc = "exited" =>
            (stop_requested /\ InFlight = {} /\ Flatten(groups) = browser_ids))
    /\ []((stop_requested /\ sched_pc # "exited") => ENABLED Next)
    /\ [][StopDiscipline]_vars
    /\ stop_requested ~> (sched_pc = "exited")

\* C11 witness: the stop came during the first batch (its last gather has
\* not returned yet), the second group was spawned all the same and every
\* session of it has finished.
C11_Witness ==
    /\ stop_requested
    /\ batches = 1
    /\ sched_pc = "gather"
    /\ Len(groups) = 2
    /\ Len(browser_ids) = 3
    /\ GatherComplete(tasks, CurrentGroup)
    /\ \E j \in DOMAIN tasks : tasks[j].touched

\* C12 as stated: every create_browser call succeeds, and the ids the calls
\* returned are pairwise different.
C12_EveryCreateSucceeds ==
    /\ result.op = "create_browser" => result.outcome = "ok"
    /\ Injective(created)

\* C12: the ids create_browser has returned are pairwise different, also for
\* calls with identical arguments, and they are exactly the browser_ids of
\* the stored rows; a call fails only when uuid4 gave an id that is stored
\* already, and a call that succeeded has stored its row under the id it
\* returned.
C12_CreatedIdsDistinct ==
    /\ Injective(created)
    /\ Range(created) = DOMAIN browsers
    /\ result.op = "create_browser" =>
          /\ result.id \in DOMAIN browsers
          /\ result.outcome = "ok" => created[Len(created)] = result.id

\* C12 witness: two calls with identical arguments have both succeeded.
C12_Witness ==
    /\ Len(created) = 2
    /\ result.op = "create_browser" /\ result.outcome = "ok"
    /\ browsers[created[1]].name = browsers[created[2]].name
    /\ browsers[created[1]].proxy_id = browsers[created[2]].proxy_id
    /\ browsers[created[1]].email_account_id = browsers[created[2]].email_account_id
    /\ browsers[created[1]].to_interact = browsers[created[2]].to_interact

\* C13: every fingerprint generate_fingerprint can produce has a viewport
\* equal to its screen descriptor in width and height, and every stored row
\* has such a fingerprint and viewport_width / viewport_height columns equal
\* to the viewport of the fingerprint stored with it.
C13_ViewportMatchesScreen ==
    /\ \A v \in DOMAIN viewports :
          LET fp == generate_fingerprint(v)
          IN /\ fp.viewport.width = fp.screen.width
             /\ fp.viewport.height = fp.screen.height
    /\ \A id \in DOMAIN browsers :
          LET r == browsers[id]
          IN /\ r.fingerprint.viewport.width = r.fingerprint.screen.width
             /\ r.fingerprint.viewport.height = r.fingerprint.screen.height
             /\ r.viewport_width = r.fingerprint.viewport.width
             /\ r.viewport_height = r.fingerprint.viewport.height

\* C13 witness: two rows are stored whose fingerprints have different
\* viewports.
C13_Witness ==
    \E a, b \in DOMAIN browsers :
        browsers[a].fingerprint.viewport # browsers[b].fingerprint.viewport

\* A step that is a direct schedule_browser_batch call.
ScheduleBatchStep == result' # result /\ result'.op = "schedule_browser_batch"

\* C14: a schedule_browser_batch call changes no stored row (statuses,
\* last_interaction values, commands, the set of identities), and a call
\* that follows another one with the same limit, with no write in between,
\* returns the same list.
C14_SelectionReadOnlyAndRepeatable ==
    [][/\ ScheduleBatchStep => (browsers' = browsers /\ commands' = commands)
       /\ (result.op = "schedule_browser_batch" /\ result'.op = "schedule_browser_batch"
           /\ result'.id = result.id) => result'.value = result.value]_vars

\* C15: when a session is started for a browser_id no row has, the error
\* reaches the caller of the operation (the awaited coroutine ends by
\* raising), no driver session is opened and the store is left unchanged.
C15_UnknownIdIsNotFound ==
    [][\A j \in DOMAIN tasks :
          (/\ tasks[j].pc = "created"
           /\ tasks[j].browser_id \notin DOMAIN browsers
           /\ tasks'[j].pc # "created") =>
              /\ tasks'[j].pc = "raised"
              /\ tasks'[j].step = 0 /\ active_browsers' = active_browsers
              /\ browsers' = browsers]_vars

\* C16: update_browser_status and update_browser_last_interaction called
\* with a browser_id no row has report NotFound to their caller, and so does
\* create_browser called with a proxy_id or an email_account_id no row has:
\* no such call completes normally, so no stored row refers to a missing
\* proxy or account.
C16_MissingIdsAreNotFound ==
    /\ (/\ result.op \in {"update_browser_status", "update_browser_last_interaction"}
        /\ result.id \notin DOMAIN browsers) => result.outcome = "NotFound"
    /\ \A id \in DOMAIN browsers :
          /\ browsers[id].proxy_id \in ProxyIds \cup {NULL}
          /\ browsers[id].email_account_id \in AccountIds \cup {NULL}

\* C17: a create_browser call whose browser_id is stored already ends with
\* the duplicate-key error at its caller, and the identities, the commands
\* and the list of created ids are exactly as before the call.
C17_DuplicateKeyLeavesStore ==
    [][(result'.op = "create_browser" /\ result'.id \in DOMAIN browsers) =>
          /\ result'.outcome = "IntegrityError"
          /\ browsers' = browsers
          /\ commands' = commands
          /\ created' = created]_vars

\* C17 witness: a create_browser call has just failed on a stored id whose
\* row differs from the one the call would have written.
C17_Witness ==
    /\ result.op = "create_browser"
    /\ result.outcome = "IntegrityError"
    /\ result.id \in DOMAIN browsers
    /\ \E fk \in ForeignKeys, interact \in BOOLEAN, v \in 1..NumViewports :
          browsers[result.id] # InsertedRow("Browser_1", fk, interact, generate_fingerprint(v))

\* The pending commands that are due at time t: no scheduled time, or one
\* that is not later than t.
DueAt(cs, t) ==
    {n \in DOMAIN cs :
        /\ cs[n].status = "pending"
        /\ (cs[n].scheduled_time = None
            \/ TimeLeq(fromisoformat(cs[n].scheduled_time), t))}

\* C18: get_pending_commands() returns exactly the pending commands whose
\* scheduled time is absent or not later than the current time, each once, in
\* ascending order of scheduled time: a saved command scheduled in the past
\* is in the list, one scheduled in the future is not.
C18_PendingAreTheDueCommands ==
    [][(result' # result /\ result'.op = "get_pending_commands") =>
          LET rows == result'.value
          IN /\ Range(rows) = DueAt(commands, now)
             /\ Injective(rows)
             /\ \A m, n \in DOMAIN rows :
                   (m < n /\ commands[rows[m]].scheduled_time # None
                          /\ commands[rows[n]].scheduled_time # None) =>
                      TimeLeq(fromisoformat(commands[rows[m]].scheduled_time),
                              fromisoformat(commands[rows[n]].scheduled_time))]_vars

\* C19: for the store as it is and every limit, the selection has exactly
\* one possible result: rows that tie on last_interaction come in one fixed
\* order, so two runs from the same state return the same sequence.
C19_SelectionDeterministic ==
    \A limit \in 0..NumUuids :
        Cardinality(schedule_browser_batch(browsers, limit)) = 1

\* A driver object (playwright, browser, context or page) exists for the
\* task's identity: the first driver call of launch_browser has returned and
\* close_browser has not finished.
HasDriverSession(t) ==
    \/ t.pc = "launch" /\ t.step > 1
    \/ t.pc \in {"interact", "close"}

\* C20: the stored status of an identity is 'running' from the moment its
\* session enters launch_browser, before the first driver call, so whenever a
\* driver object exists for it its stored status is 'running'.
C20_RunningBeforeDriverSession ==
    \A j \in DOMAIN tasks :
        (tasks[j].pc = "launch" \/ HasDriverSession(tasks[j])) =>
            browsers[tasks[j].browser_id].status = "running"

\* What the caller of run_single_browser_session gets from the call: the
\* function has no return statement, so every call that returns returns None
\* (in run_browser_batch: one None per session in the list gather builds);
\* only an exception leaving the finally clause gives anything else.
session_result(t) == IF t.pc = "raised" THEN "exception" ELSE "None"

\* A step in which a driver call of task j's launch_browser raises inside
\* run_single_browser_session: the session is not yet in active_browsers, so
\* the finally clause's close_browser returns at once and the call is over.
DriverLaunchFailure(j) ==
    /\ j \in DOMAIN tasks'
    /\ tasks[j].pc = "launch"
    /\ tasks[j].entry = "session"
    /\ tasks'[j].pc \notin {"launch", "interact", "close"}
    /\ active_browsers' = active_browsers

\* C21: a driver failure during launch does not leave
\* run_single_browser_session, no plan command is executed, the identity is
\* 'inactive' afterwards, and the session's outcome tells the caller that the
\* launch failed: it differs from the outcome of a session that succeeded.
C21_LaunchFailureIsTheOutcome ==
    [][\A j \in DOMAIN tasks :
          DriverLaunchFailure(j) =>
              /\ tasks'[j].pc = "done"
              /\ tasks'[j].attempted = <<>>
              /\ browsers'[tasks[j].browser_id].status = "inactive"
              /\ \A k \in DOMAIN tasks' :
                    (tasks'[k].pc = "done" /\ tasks'[k].touched) =>
                        session_result(tasks'[j]) # session_result(tasks'[k])]_vars

\* A step in which task j's run_single_browser_session call ends (returns or
\* raises) while driver objects created for it exist.
ReturnsWithDriverSession(j) ==
    /\ j \in DOMAIN tasks'
    /\ tasks[j].entry = "session"
    /\ HasDriverSession(tasks[j])
    /\ tasks'[j].pc \in Terminal

\* C22: on every exit path of run_single_browser_session every driver
\* resource acquired for the session has been released and no entry for the
\* identity remains in active_browsers: a call that ends while driver objects
\* exist ends in close_browser, after context.close() and browser.close()
\* have returned and playwright.stop() was called, with the entry deleted.
C22_ExitReleasesDriverSession ==
    [][\A j \in DOMAIN tasks :
          ReturnsWithDriverSession(j) =>
              /\ tasks[j].pc = "close"
              /\ tasks[j].step = CloseSteps
              /\ tasks[j].browser_id \notin active_browsers']_vars

\* C23: across the batches of one scheduler no identity has two sessions in
\* flight at the same time: a selection lists each identity once, and an
\* identity whose session is in flight is not selected.
C23_OneSessionPerIdentity ==
    /\ \A j, k \in InFlight :
          j # k => tasks[j].browser_id # tasks[k].browser_id
    /\ Injective(browser_ids)
    /\ JustSelected =>
          \A n \in DOMAIN browser_ids : \A j \in InFlight :
              tasks[j].browser_id # browser_ids[n]

\* C23 witness: in the second batch two sessions are in flight at once, one of
\* them for an identity that already had a session in the first batch.
C23_Witness ==
    /\ batches = 2
    /\ Cardinality(InFlight) = 2
    /\ \E j \in InFlight : tasks[j].li0 # NULL /\ tasks[j].pc = "interact"

\* Table b2 differs from table b at most in field f of row id.
OnlyFieldChanged(b, b2, id, f) ==
    /\ DOMAIN b2 = DOMAIN b
    /\ \A x \in DOMAIN b :
          /\ DOMAIN b2[x] = DOMAIN b[x]
          /\ \A g \in DOMAIN b[x] : (x # id \/ g # f) => b2[x][g] = b[x][g]

\* What a step that is a call of one of the two UPDATE functions may change.
UpdateFrame ==
    /\ result'.op = "update_browser_status" =>
          OnlyFieldChanged(browsers, browsers', result'.id, "status")
    /\ result'.op = "update_browser_last_interaction" =>
          OnlyFieldChanged(browsers, browsers', result'.id, "last_interaction")

\* The store writes of one session of identity id, in program order:
\* 'running' at the end of launch_browser, last_interaction (read from the
\* clock as t) after the plan, 'inactive' in close_browser.
session_writes(id, t) ==
    << [id |-> id, field |-> "status", status |-> "running", t |-> 0],
       [id |-> id, field |-> "last_interaction", status |-> "", t |-> t],
       [id |-> id, field |-> "status", status |-> "inactive", t |-> 0] >>

\* Table b after write w.
Write(b, w) ==
    IF w.field = "status"
    THEN update_browser_status(b, w.id, w.status)
    ELSE update_browser_last_interaction(b, w.id, w.t)

RECURSIVE ApplyWrites(_, _)
ApplyWrites(b, ws) ==
    IF ws = <<>> THEN b ELSE ApplyWrites(Write(b, Head(ws)), Tail(ws))

\* A session may end after any number of its writes (a failed launch writes
\* nothing, a failing UPDATE ends it).
Prefixes(s) == {SubSeq(s, 1, n) : n \in 0..Len(s)}

\* Every order in which the event loop can run the writes of two sessions.
RECURSIVE Interleavings(_, _)
Interleavings(a, c) ==
    IF a = <<>> THEN {c}
    ELSE IF c = <<>> THEN {a}
    ELSE {<<Head(a)>> \o m : m \in Interleavings(Tail(a), c)}
         \cup {<<Head(c)>> \o m : m \in Interleavings(a, Tail(c))}

\* From the current store, two sessions on distinct identities leave the same
\* store in every interleaving as when run one after the other.
SeriallyEquivalent ==
    \A x, y \in DOMAIN browsers :
        x < y =>
            \A a \in Prefixes(session_writes(x, clock)),
               c \in Prefixes(session_writes(y, clock + 1)) :
                \A m \in Interleavings(a, c) :
                    ApplyWrites(browsers, m) = ApplyWrites(browsers, a \o c)

\* C24: update_browser_status(X, s) changes only the status of row X and
\* update_browser_last_interaction(X) only the last_interaction of row X,
\* every other row and field (the fingerprint included) stays as it was, and
\* so concurrent sessions on distinct identities leave the store as the same
\* sessions run one after another do.
C24_UpdatesTouchOneField ==
    /\ [][UpdateFrame]_vars
    /\ []SeriallyEquivalent

\* C24 witness: two identities with different fingerprints are stored; both
\* have been written by update calls, the last one a status update of the
\* first while the second keeps its own status and last_interaction.
C24_Witness ==
    /\ DOMAIN browsers = {1, 2}
    /\ browsers[1].fingerprint # browsers[2].fingerprint
    /\ result.op = "update_browser_status" /\ result.id = 1
    /\ browsers[1].status = "running" /\ browsers[1].last_interaction = NULL
    /\ browsers[2].status = "inactive" /\ browsers[2].last_interaction # NULL

\* ------------------------------------------- the loop under every interval
\* The scheduler started with any interval of whole minutes from 1 up, and
\* the default batch size, which exceeds the number of rows.
MaxInterval == 2

LoopNext ==
    \/ \E im \in 1..MaxInterval : Start(NumBrowsers, im)
    \/ LoopEnter
    \/ LoopExit
    \/ Stop
    \/ SelectOk
    \/ SelectRaise
    \/ SpawnGroup
    \/ BatchDone
    \/ Gather
    \/ GroupSleep
    \/ SleepOver
    \/ \E j \in DOMAIN tasks : SessionBegin(j)
    \/ \E j \in DOMAIN tasks : LaunchOk(j)
    \/ \E j \in DOMAIN tasks : LaunchFail(j)
    \/ \E j \in DOMAIN tasks, dbok \in BOOLEAN : LaunchFinish(j, dbok)
    \/ \E j \in DOMAIN tasks, ok \in BOOLEAN, dbok \in BOOLEAN : CommandStep(j, ok, dbok)
    \/ \E j \in DOMAIN tasks : BodyRaise(j)
    \/ \E j \in DOMAIN tasks : CloseOk(j)
    \/ \E j \in DOMAIN tasks, ok \in BOOLEAN, dbok \in BOOLEAN : CloseFinish(j, ok, dbok)

LoopSpec == Init /\ [][LoopNext]_vars

\* C25: for every interval_minutes >= 1 the backoff slept after a failed
\* batch is strictly shorter than the sleep between two batches.
C25_BackoffShorterThanInterval ==
    sched_pc = "backoff" => wait < interval * 60

\* ------------------------------------- schedule_browser_batch's whole result
\* datetime + timedelta(minutes=m), within one day.
PlusMinutes(t, m) == <<t[1], t[2] + m * 60>>

\* The dict schedule_browser_batch returns: sel is what the SELECT gave, t1
\* and t2 are what the first and the second datetime.now() call gave.
batch_command(sel, limit, im, t1, t2) ==
    [type |-> "batch_execution",
     browser_ids |-> sel,
     batch_size |-> limit,
     interval_minutes |-> im,
     scheduled_time |-> isoformat(t1),
     next_batch_time |-> isoformat(PlusMinutes(t2, im))]

\* schedule_browser_batch(batch_size, interval_minutes), called directly;
\* dt seconds pass between its two datetime.now() calls.
ScheduleBatchCommand(limit, im, dt) ==
    /\ now[2] + dt <= MaxSecond
    /\ now' = <<now[1], now[2] + dt>>
    /\ \E sel \in schedule_browser_batch(browsers, limit) :
          result' = [op |-> "schedule_browser_batch", id |-> limit, outcome |-> "ok",
                     value |-> batch_command(sel, limit, im, now, now')]
    /\ UNCHANGED <<browsers, clock, commands, created>>
    /\ UNCHANGED proxy_rows
    /\ UNCHANGED schedVars

BatchCommandNext ==
    \/ \E limit \in 0..NumBrowsers, im \in 1..MaxInterval, dt \in 0..1 :
          ScheduleBatchCommand(limit, im, dt)
    \/ Tick

BatchCommandSpec == Init /\ [][BatchCommandNext]_vars

\* C26: in the result of schedule_browser_batch next_batch_time is
\* scheduled_time plus exactly interval_minutes, for every interval and
\* however much time passes while the result is built.
C26_NextBatchTimeExact ==
    result.op = "schedule_browser_batch" =>
        fromisoformat(result.value.next_batch_time)
            = PlusMinutes(fromisoformat(result.value.scheduled_time),
                          result.value.interval_minutes)

\* The rows of the commands table that belong to identity id and have the
\* given status.
StoredCommands(id, status) ==
    {n \in DOMAIN commands :
        commands[n].browser_id = id /\ commands[n].status = status}

\* C27: every command the engine has executed for an identity is a stored
\* command marked 'executed' afterwards (and so no longer pending), and a
\* command marked 'executed' never becomes 'pending' again.
C27_ExecutedCommandsAreMarked ==
    /\ \A j \in DOMAIN tasks :
          tasks[j].pc \in Terminal =>
              Cardinality(StoredCommands(tasks[j].browser_id, "executed"))
                  >= Len(tasks[j].attempted)
    /\ \A n \in DOMAIN commands : commands[n].status \in {"pending", "executed"}

\* ------------------------------------------- generate_interaction_commands
\* The email_accounts table (filled by the CSV import): one row per AccountIds.
email_accounts ==
    [a \in AccountIds |-> [email |-> "user1@example.com", password |-> "password1"]]

\* The placeholders the login commands carry as their values.
Placeholders == {"{{email_address}}", "{{email_password}}"}

\* One command dict: its type, what it acts on (url, selector, direction or
\* action) and the text it types.  Delays and amounts are left out.
Cmd(type, target, value) == [type |-> type, target |-> target, value |-> value]

email_commands ==
    << Cmd("navigate", "https://gmail.com", ""),
       Cmd("fill", "input[type='email']", "{{email_address}}"),
       Cmd("click", "#identifierNext", ""),
       Cmd("wait", "", ""),
       Cmd("fill", "input[type='password']", "{{email_password}}"),
       Cmd("click", "#passwordNext", ""),
       Cmd("wait_for_navigation", "", ""),
       Cmd("scroll", "down", ""),
       Cmd("click", "[data-tooltip='Inbox']", ""),
       Cmd("custom_action", "process_emails", "") >>

\* The urls random.choice picks the browsing target from.
browsing_urls ==
    <<"https://news.google.com", "https://www.reddit.com", "https://stackoverflow.com">>

\* browsing_commands, with u the index random.choice picked.
browsing_commands(u) ==
    << Cmd("navigate", browsing_urls[u], ""),
       Cmd("scroll", "down", ""),
       Cmd("wait", "", ""),
       Cmd("click", "a", "") >>

\* generate_interaction_commands(browser_id): the two lists one after the
\* other.  Neither the browsers nor the email_accounts table is read.
generate_interaction_commands(id, u) == email_commands \o browsing_commands(u)

\* generate_interaction_commands(browser_id), called directly.
GenerateInteractionCommands(id, u) ==
    /\ result' = [op |-> "generate_interaction_commands", id |-> id, outcome |-> "ok",
                  value |-> generate_interaction_commands(id, u)]
    /\ UNCHANGED <<browsers, clock, commands, now, created>>
    /\ UNCHANGED proxy_rows
    /\ UNCHANGED schedVars

PlanNext ==
    \/ \E id \in UUIDs, fk \in ForeignKeys, interact \in BOOLEAN, v \in 1..NumViewports :
          create_browser(id, "Browser_1", fk, interact, v)
    \/ \E id \in UUIDs, u \in DOMAIN browsing_urls : GenerateInteractionCommands(id, u)

PlanSpec == StoreInit /\ [][PlanNext]_vars

\* The types of the commands of a plan, in order.
TypesOf(plan) == [n \in DOMAIN plan |-> plan[n].type]

\* The texts a plan types into the page, in order.
FilledValues(plan) ==
    LET fills == SelectSeq(plan, LAMBDA c : c.type = "fill")
    IN [n \in DOMAIN fills |-> fills[n].value]

\* C28: generate_interaction_commands never fails and returns the login
\* commands followed by the browsing commands navigate, scroll, wait, click;
\* for an identity with a linked account no placeholder is left in the plan,
\* the account's address and secret stand in their place; an identity
\* without an account still gets the browsing segment.
C28_PlanSubstituted ==
    result.op = "generate_interaction_commands" =>
        LET plan == result.value
            id   == result.id
        IN /\ result.outcome = "ok"
           /\ TypesOf(plan) = TypesOf(email_commands)
                                  \o <<"navigate", "scroll", "wait", "click">>
           /\ (id \in DOMAIN browsers
                 /\ browsers[id].email_account_id \in DOMAIN email_accounts) =>
                 LET account == email_accounts[browsers[id].email_account_id]
                 IN /\ \A n \in DOMAIN plan : plan[n].value \notin Placeholders
                    /\ FilledValues(plan) = <<account.email, account.password>>

\* ------------------------------------------------- generate_launch_command
\* The proxies table (filled by the CSV import): one row per ProxyIds.
proxies ==
    [p \in ProxyIds |-> [host |-> "10.0.0.1", port |-> 8080,
                         username |-> "user1", password |-> "pass1"]]

\* x if x else None, as a list: empty for None.
OrNone(x) == IF x = "" THEN <<>> ELSE <<x>>

\* context_options["proxy"] for proxies row p.
proxy_option(p) ==
    [server |-> <<"http://", p.host, ":", p.port>>,
     username |-> OrNone(p.username),
     password |-> OrNone(p.password)]

\* The proxy entry of generate_launch_command(browser_id, use_proxy=...)'s
\* context_options for a stored row, as a list: empty when there is no entry.
generate_launch_command(b, id, use_proxy) ==
    IF use_proxy /\ b[id].proxy_id # NULL /\ b[id].proxy_id \in DOMAIN proxies
    THEN <<proxy_option(proxies[b[id].proxy_id])>>
    ELSE <<>>

\* launch_browser(browser_id, use_proxy) up to browser.new_context(
\* **command["context_options"]): the proxy the driver context is opened
\* with, or the ValueError of generate_launch_command.
OpenContext(op, b, id, use_proxy) ==
    IF id \in DOMAIN b
    THEN [op |-> op, id |-> id, outcome |-> "ok",
          value |-> generate_launch_command(b, id, use_proxy)]
    ELSE [op |-> op, id |-> id, outcome |-> "ValueError", value |-> <<>>]

\* run_single_browser_session(browser_id), also as a task of
\* run_browser_batch: await self.launch_browser(browser_id), so use_proxy has
\* launch_browser's default, False.
SessionOpensContext(id) ==
    /\ result' = OpenContext("run_single_browser_session", browsers, id, FALSE)
    /\ UNCHANGED <<browsers, clock, commands, now, created>>
    /\ UNCHANGED proxy_rows
    /\ UNCHANGED schedVars

\* The test-launch command: launch_browser(browser_id, use_proxy=not no_proxy).
TestLaunchOpensContext(id, no_proxy) ==
    /\ result' = OpenContext("test-launch", browsers, id, ~no_proxy)
    /\ UNCHANGED <<browsers, clock, commands, now, created>>
    /\ UNCHANGED proxy_rows
    /\ UNCHANGED schedVars

LaunchCommandNext ==
    \/ \E id \in UUIDs, fk \in ForeignKeys, interact \in BOOLEAN, v \in 1..NumViewports :
          create_browser(id, "Browser_1", fk, interact, v)
    \/ \E id \in UUIDs : SessionOpensContext(id)
    \/ \E id \in UUIDs, no_proxy \in BOOLEAN : TestLaunchOpensContext(id, no_proxy)

LaunchCommandSpec == StoreInit /\ [][LaunchCommandNext]_vars

\* C29: a session started by run_single_browser_session or run_browser_batch
\* for an identity bound to an existing proxy opens its driver context with
\* that proxy's server and credentials; for an identity without a proxy the
\* context is opened without one.
C29_SessionUsesBoundProxy ==
    (/\ result.op = "run_single_browser_session"
     /\ result.id \in DOMAIN browsers) =>
        IF browsers[result.id].proxy_id \in DOMAIN proxies
        THEN result.value = <<proxy_option(proxies[browsers[result.id].proxy_id])>>
        ELSE result.value = <<>>

\* ----------------------------------------------------------- the CSV import
\* Rows the proxies table is followed for, and rows of one CSV file.
MaxProxies == 3
MaxCsvRows == 2

\* The (host, port, username) of the proxies the CSV files name: the same
\* host and port without and with a user name.
ProxyKeys == {<<"10.0.0.1", 8080, "">>, <<"10.0.0.1", 8080, "user1">>}

\* A row of the browsers CSV whose proxy_host column is empty.
NoProxyHost == <<>>

\* The proxies row an INSERT writes for key k (name, password and protocol
\* play no part in finding a proxy and are left out).
ProxyRow(k) == [host |-> k[1], port |-> k[2], username |-> k[3]]

KeyOf(r) == <<r.host, r.port, r.username>>

\* SELECT id FROM proxies WHERE host = ? AND port = ? AND username = ?
Matching(rows, k) == {n \in DOMAIN rows : KeyOf(rows[n]) = k}

\* All lists of length n over S.
Lists(S, n) == [1..n -> S]

\* create_or_find_proxy(host, port, username): the table afterwards and the
\* id returned.  fetchone() gives one of the matching rows; without a match
\* the row is inserted and lastrowid returned.
create_or_find_proxy(rows, k) ==
    IF Matching(rows, k) # {}
    THEN {<<rows, n>> : n \in Matching(rows, k)}
    ELSE {<<Append(rows, ProxyRow(k)), Len(rows) + 1>>}

\* The for loop of import_browsers_from_csv over the rows csv, from tables pr
\* (proxies) and b (browsers), with done the browser_ids returned so far;
\* uuid4 gives ids[n] and random.choice(viewports) gives vs[n] for row n.  An
\* exception of create_browser is printed and the loop goes on.  The result
\* is the set of <<proxies, browsers, browser_ids>> the loop can end with.
RECURSIVE import_browser_rows(_, _, _, _, _, _)
import_browser_rows(pr, b, done, csv, ids, vs) ==
    IF csv = <<>> THEN {<<pr, b, done>>}
    ELSE LET row   == Head(csv)
             found == IF row[1] = NoProxyHost
                      THEN {<<pr, NULL>>}
                      ELSE create_or_find_proxy(pr, row[1])
             id    == Head(ids)
         IN UNION
              {LET r == InsertedRow("Browser_1", <<f[2], NULL>>, row[2],
                                    generate_fingerprint(Head(vs)))
               IN IF UniqueViolation(b, id)
                  THEN import_browser_rows(f[1], RejectedInsert(b, id, r), done,
                                           Tail(csv), Tail(ids), Tail(vs))
                  ELSE import_browser_rows(f[1], Insert(b, id, r), Append(done, id),
                                           Tail(csv), Tail(ids), Tail(vs))
               : f \in found}

\* import_proxies_from_csv(file): one INSERT per row of the file, no lookup.
import_proxies_from_csv(csv) ==
    /\ Len(proxy_rows) + Len(csv) <= MaxProxies
    /\ proxy_rows' = proxy_rows \o [n \in DOMAIN csv |-> ProxyRow(csv[n])]
    /\ result' = [op |-> "import_proxies_from_csv", id |-> 0, outcome |-> "ok",
                  value |-> [n \in DOMAIN csv |-> Len(proxy_rows) + n]]
    /\ UNCHANGED <<browsers, clock, commands, now, created>>
    /\ UNCHANGED schedVars

\* create_or_find_proxy(host, port, username), called directly.
CreateOrFindProxy(k) ==
    /\ Len(proxy_rows) < MaxProxies
    /\ \E out \in create_or_find_proxy(proxy_rows, k) :
          /\ proxy_rows' = out[1]
          /\ result' = [op |-> "create_or_find_proxy", id |-> out[2], outcome |-> "ok",
                        value |-> <<k>>]
    /\ UNCHANGED <<browsers, clock, commands, now, created>>
    /\ UNCHANGED schedVars

\* import_browsers_from_csv(file): per row create_or_find_proxy (when the row
\* names a proxy host), then create_browser.
import_browsers_from_csv(csv, ids, vs) ==
    /\ Len(proxy_rows) + Len(csv) <= MaxProxies
    /\ \E out \in import_browser_rows(proxy_rows, browsers, <<>>, csv, ids, vs) :
          /\ proxy_rows' = out[1]
          /\ browsers' = out[2]
          /\ created' = created \o out[3]
          /\ result' = [op |-> "import_browsers_from_csv", id |-> 0, outcome |-> "ok",
                        value |-> out[3]]
    /\ UNCHANGED <<clock, commands, now>>
    /\ UNCHANGED schedVars

ImportNext ==
    \/ \E n \in 1..MaxCsvRows : \E csv \in Lists(ProxyKeys, n) :
          import_proxies_from_csv(csv)
    \/ \E k \in ProxyKeys : CreateOrFindProxy(k)
    \/ \E n \in 1..MaxCsvRows :
          \E csv \in Lists((ProxyKeys \cup {NoProxyHost}) \X BOOLEAN, n),
             ids \in Lists(UUIDs, n), vs \in Lists(1..NumViewports, n) :
                import_browsers_from_csv(csv, ids, vs)

ImportSpec == StoreInit /\ [][ImportNext]_vars

\* C30: after any sequence of proxy imports no two stored proxies share the
\* same (host, port, username), and importing a proxy that is stored already
\* returns the id of the stored row and adds none.
C30_ProxiesDeduplicated ==
    /\ \A m, n \in DOMAIN proxy_rows :
          m # n => KeyOf(proxy_rows[m]) # KeyOf(proxy_rows[n])
    /\ result.op = "create_or_find_proxy" =>
          Matching(proxy_rows, result.value[1]) = {result.id}

\* ------------------------------------------------ the fingerprint generator
\* (scripts/fingerprint_tester/Attributes/tester.py, AdvancedFingerprintTester)
\* Longest candidate list (lines of a data file) the selectors are given.
MaxCandidates == 2

\* All non-empty lists of at most MaxCandidates members of S.
CandidateLists(S) == UNION {Lists(S, n) : n \in 1..MaxCandidates}

\* [x for x in s if x in keep]
Members(s, keep) == SelectSeq(s, LAMBDA x : x \in keep)

\* random.choice(s): any member, IndexError for an empty sequence.
choice(s) ==
    IF s = <<>>
    THEN {[outcome |-> "IndexError", chosen |-> ""]}
    ELSE {[outcome |-> "ok", chosen |-> s[n]] : n \in DOMAIN s}

\* The body the three weighted selectors share: roll is the outcome of
\* `random.random() < p`, common the selector's literal list of common values.
weighted_choice(candidates, common, roll) ==
    LET uncommon == Members(candidates, Range(candidates) \ Range(common))
    IN IF roll /\ common # <<>>
       THEN choice(Members(common, Range(candidates)))
       ELSE choice(IF uncommon # <<>> THEN uncommon ELSE candidates)

common_resolutions == <<"1920x1080", "1366x768", "1280x720", "1536x864">>
common_timezones == <<"America/New_York", "Europe/London", "America/Los_Angeles", "UTC">>
common_languages == <<"en-US,en;q=0.9", "en-GB,en;q=0.9", "en,en-US;q=0.9">>

\* The values the data files offer: two common and two uncommon ones each.
Resolutions == {"1920x1080", "1366x768", "2560x1440", "3440x1440"}
Timezones == {"America/New_York", "UTC", "Asia/Tokyo", "Pacific/Auckland"}
Languages == {"en-US,en;q=0.9", "en-GB,en;q=0.9", "de-DE,de;q=0.9", "ja-JP,ja;q=0.9"}

get_weighted_resolution(resolutions, roll) ==
    weighted_choice(resolutions, common_resolutions, roll)

get_weighted_timezone(timezones, roll) ==
    weighted_choice(timezones, common_timezones, roll)

get_weighted_language(languages, roll) ==
    weighted_choice(languages, common_languages, roll)

\* What a selector call gave its caller.
Selected(op, candidates, o) ==
    [op |-> op, id |-> 0, outcome |-> o.outcome,
     value |-> [candidates |-> candidates, chosen |-> o.chosen]]

GetWeightedResolution(resolutions, roll) ==
    /\ \E o \in get_weighted_resolution(resolutions, roll) :
          result' = Selected("get_weighted_resolution", resolutions, o)
    /\ UNCHANGED <<browsers, clock, commands, now, created, proxy_rows>>
    /\ UNCHANGED schedVars

GetWeightedTimezone(timezones, roll) ==
    /\ \E o \in get_weighted_timezone(timezones, roll) :
          result' = Selected("get_weighted_timezone", timezones, o)
    /\ UNCHANGED <<browsers, clock, commands, now, created, proxy_rows>>
    /\ UNCHANGED schedVars

GetWeightedLanguage(languages, roll) ==
    /\ \E o \in get_weighted_language(languages, roll) :
          result' = Selected("get_weighted_language", languages, o)
    /\ UNCHANGED <<browsers, clock, commands, now, created, proxy_rows>>
    /\ UNCHANGED schedVars

SelectorOps == {"get_weighted_resolution", "get_weighted_timezone", "get_weighted_language"}

\* get_random_font_subset's min_fonts and max_fonts.  The code's defaults are
\* 20 and 50 (tester.py:104); the model draws from a small catalog with the
\* same arithmetic.
min_fonts == 2
max_fonts == 3

common_fonts == <<"Arial", "Times New Roman", "Helvetica", "Georgia", "Verdana">>

\* The lines fonts.txt can hold, each the list of the words of a font name.
FontNames == {<<"Arial">>, <<"Arial", "Black">>, <<"Calibri">>, <<"Webdings">>}

\* any(common in f for common in common_fonts), word by word.
IsCommonFont(f) == \E n \in DOMAIN f : f[n] \in Range(common_fonts)

\* random.sample(S, k): k distinct members.
sample(S, k) == {T \in SUBSET S : Cardinality(T) = k}

\* get_random_font_subset(fonts) for a catalog of distinct lines:
\* random.randint(a, b) raises ValueError when a > b; otherwise a sample of
\* the catalog extended by up to 3 common fonts, as list(set(...)).
get_random_font_subset(fonts) ==
    LET available_common == {f \in fonts : IsCommonFont(f)}
        hi == Min(max_fonts, Cardinality(fonts))
    IN IF min_fonts > hi
       THEN {[outcome |-> "ValueError", fonts |-> {}]}
       ELSE {[outcome |-> "ok", fonts |-> S \cup C] :
                <<S, C>> \in (UNION {sample(fonts, Min(n, Cardinality(fonts))) :
                                        n \in min_fonts..hi})
                              \X sample(available_common,
                                        Min(3, Cardinality(available_common)))}

GetRandomFontSubset(fonts) ==
    /\ \E o \in get_random_font_subset(fonts) :
          result' = [op |-> "get_random_font_subset", id |-> 0, outcome |-> o.outcome,
                     value |-> [catalog |-> fonts, fonts |-> o.fonts]]
    /\ UNCHANGED <<browsers, clock, commands, now, created, proxy_rows>>
    /\ UNCHANGED schedVars

\* The lines webgl_vendor_renderer.txt can hold, as lists of words: two
\* vendor|renderer pairs and a line without a bar.
WebglLines ==
    {<<"Intel Inc.", "|", "Intel Iris OpenGL Engine">>,
     <<"NVIDIA Corporation", "|", "GeForce GTX 1080">>,
     <<"Mesa">>}

\* line.split('|', 1) with both parts stripped; a line without a bar stands
\* for both parts.
split_line(line) ==
    IF \E n \in DOMAIN line : line[n] = "|"
    THEN LET k == CHOOSE n \in DOMAIN line :
                     line[n] = "|" /\ \A m \in 1..(n - 1) : line[m] # "|"
         IN <<SubSeq(line, 1, k - 1), SubSeq(line, k + 1, Len(line))>>
    ELSE <<line, line>>

\* parse_webgl_data: the list of vendors and the list of renderers.
parse_webgl_data(webgl_data) ==
    [vendors   |-> [n \in DOMAIN webgl_data |-> split_line(webgl_data[n])[1]],
     renderers |-> [n \in DOMAIN webgl_data |-> split_line(webgl_data[n])[2]]]

\* One combo of generate_advanced_combinations, its two WebGL keys:
\* random.choice(vendors) and random.choice(renderers).
GenerateAdvancedCombination(webgl_data) ==
    /\ LET parsed == parse_webgl_data(webgl_data)
       IN \E v \in DOMAIN parsed.vendors, r \in DOMAIN parsed.renderers :
             result' = [op |-> "generate_advanced_combinations", id |-> 0,
                        outcome |-> "ok",
                        value |-> [webgl_vendor_renderer |-> webgl_data,
                                   webgl_vendor |-> parsed.vendors[v],
                                   webgl_renderer |-> parsed.renderers[r]]]
    /\ UNCHANGED <<browsers, clock, commands, now, created, proxy_rows>>
    /\ UNCHANGED schedVars

FingerprintNext ==
    \/ \E l \in CandidateLists(Resolutions), roll \in BOOLEAN : GetWeightedResolution(l, roll)
    \/ \E l \in CandidateLists(Timezones), roll \in BOOLEAN : GetWeightedTimezone(l, roll)
    \/ \E l \in CandidateLists(Languages), roll \in BOOLEAN : GetWeightedLanguage(l, roll)
    \/ \E fonts \in (SUBSET FontNames) \ {{}} : GetRandomFontSubset(fonts)
    \/ \E l \in CandidateLists(WebglLines) : GenerateAdvancedCombination(l)

FingerprintSpec == StoreInit /\ [][FingerprintNext]_vars

\* C31: the weighted selectors always succeed and return a member of the
\* candidate list, for every non-empty candidate list: also for a list with
\* none of the common values, and for a list of common values only.
C31_SelectorsAlwaysSucceed ==
    result.op \in SelectorOps =>
        /\ result.outcome = "ok"
        /\ result.value.chosen \in Range(result.value.candidates)

\* C32: in every generated combination the (webgl_vendor, webgl_renderer)
\* pair is the pair of one configured line.
C32_VendorRendererPaired ==
    result.op = "generate_advanced_combinations" =>
        \E n \in DOMAIN result.value.webgl_vendor_renderer :
            <<result.value.webgl_vendor, result.value.webgl_renderer>>
                = split_line(result.value.webgl_vendor_renderer[n])

\* C33: for every non-empty font catalog, also one smaller than min_fonts,
\* get_random_font_subset succeeds and returns fonts of the catalog.
C33_FontSubsetAlwaysSucceeds ==
    result.op = "get_random_font_subset" =>
        /\ result.outcome = "ok"
        /\ result.value.fonts \subseteq result.value.catalog

\* ------------------------------------------------------ the run-single command
\* The parameters run_single_browser_session can be called with, and the
\* keywords main() passes beside the positional browser_id.
run_single_browser_session_params == {"browser_id"}
run_single_keywords == {"use_proxy"}

\* Python binds the arguments of a call before the body runs: a keyword the
\* function has no parameter for is a TypeError.
BindsArguments(params, keywords) == keywords \subseteq params

\* main() with `run-single --browser-id id`:
\* await executor.run_single_browser_session(id, use_proxy=not args.no_proxy).
\* When the call binds, the session runs as the awaited coroutine; when it
\* does not, the TypeError leaves main() and no session exists.
RunSingleCommand(id) ==
    /\ InFlight = {}
    /\ Len(tasks) < MaxCalls
    /\ IF BindsArguments(run_single_browser_session_params, run_single_keywords)
       THEN /\ tasks' = Append(tasks, DirectTask(id, "session", browsers))
            /\ result' = [op |-> "run-single", id |-> id, outcome |-> "ok", value |-> <<>>]
       ELSE /\ tasks' = tasks
            /\ result' = [op |-> "run-single", id |-> id, outcome |-> "TypeError",
                          value |-> <<>>]
    /\ UNCHANGED <<browsers, active_browsers, clock, running, stop_requested, sched_pc,
                   batch_size, interval, browser_ids, i, groups, batches, failures,
                   batch_error, wait>>
    /\ UNCHANGED <<commands, now, created, proxy_rows>>

CliNext ==
    \/ \E id \in BrowserIds \cup {UnknownId} : RunSingleCommand(id)
    \/ \E id \in BrowserIds \cup {UnknownId}, entry \in {"session", "launch"} : Call(id, entry)
    \/ \E j \in DOMAIN tasks : SessionBegin(j)
    \/ \E j \in DOMAIN tasks : LaunchOk(j)
    \/ \E j \in DOMAIN tasks : LaunchFail(j)
    \/ \E j \in DOMAIN tasks, dbok \in BOOLEAN : LaunchFinish(j, dbok)
    \/ \E j \in DOMAIN tasks, ok \in BOOLEAN, dbok \in BOOLEAN : CommandStep(j, ok, dbok)
    \/ \E j \in DOMAIN tasks : BodyRaise(j)
    \/ \E j \in DOMAIN tasks : CloseOk(j)
    \/ \E j \in DOMAIN tasks, ok \in BOOLEAN, dbok \in BOOLEAN : CloseFinish(j, ok, dbok)

CliSpec == Init /\ [][CliNext]_vars

\* C34: run-single with a valid --browser-id runs one session for that
\* identity and completes normally.
C34_RunSingleRunsOneSession ==
    (result.op = "run-single" /\ result.id \in DOMAIN browsers) =>
        /\ result.outcome = "ok"
        /\ \E j \in DOMAIN tasks :
              tasks[j].browser_id = result.id /\ tasks[j].entry = "session"

\* C36: an identity whose stored status is 'running' has an entry in
\* active_browsers.
C36_RunningHasSession ==
    \A id \in DOMAIN browsers :
        browsers[id].status = "running" => id \in active_browsers

\* C37: the batch_size field of the result of schedule_browser_batch equals
\* the number of identities in its browser_ids.
C37_BatchSizeCountsIds ==
    result.op = "schedule_browser_batch" =>
        result.value.batch_size = Len(result.value.browser_ids)

\* ------------------------------------------------ execute_command called alone
\* The commands a caller passes: dictionaries with or without the keys
\* execute_command reads.
CommandDicts ==
    {[type |-> "navigate", url |-> "u"], [type |-> "navigate"], [url |-> "u"]}

\* The try block of execute_command raises: command["type"] or command["url"]
\* is missing (KeyError), or the driver call failed (~ok).
TryRaises(command, ok) ==
    \/ "type" \notin DOMAIN command
    \/ command.type = "navigate" /\ ("url" \notin DOMAIN command \/ ~ok)

\* except Exception as e: print(f"Error executing command {command['type']}: ..."):
\* building the message reads command['type'] again.
HandlerRaises(command) == "type" \notin DOMAIN command

\* execute_command starts: with an entry in active_browsers it reads the page
\* and enters the try block; with none it calls launch_browser, which calls
\* generate_launch_command (ValueError for an unknown id) and awaits
\* async_playwright().start().
ExecuteCommandBegin(j) ==
    /\ tasks[j].pc = "created"
    /\ tasks[j].entry = "command"
    /\ tasks' = [tasks EXCEPT ![j] =
                    IF @.browser_id \in active_browsers
                    THEN [@ EXCEPT !.pc = "command"]
                    ELSE IF @.browser_id \in DOMAIN browsers
                    THEN [@ EXCEPT !.pc = "launch", !.step = 1]
                    ELSE LaunchRaised(@, active_browsers)]
    /\ UNCHANGED <<browsers, active_browsers, clock, running, stop_requested, sched_pc,
                   batch_size, interval, browser_ids, i, groups, batches, failures,
                   batch_error, wait>>
    /\ UNCHANGED apiVars

\* The try block of execute_command for one command: it returns, or it raises
\* and the handler prints the error, or the handler raises itself.
ExecuteCommand(j, command, ok) ==
    /\ tasks[j].pc = "command"
    /\ tasks' = [tasks EXCEPT ![j] =
                    IF ~TryRaises(command, ok)
                    THEN [@ EXCEPT !.pc = "done", !.attempted = <<1>>]
                    ELSE IF HandlerRaises(command)
                    THEN [@ EXCEPT !.pc = "raised", !.attempted = <<1>>,
                                   !.abort = "command"]
                    ELSE [@ EXCEPT !.pc = "done", !.attempted = <<1>>,
                                   !.swallowed = TRUE]]
    /\ UNCHANGED <<browsers, active_browsers, clock, running, stop_requested, sched_pc,
                   batch_size, interval, browser_ids, i, groups, batches, failures,
                   batch_error, wait>>
    /\ UNCHANGED apiVars

ExecNext ==
    \/ \E id \in BrowserIds \cup {UnknownId} : Call(id, "command")
    \/ \E j \in DOMAIN tasks : ExecuteCommandBegin(j)
    \/ \E j \in DOMAIN tasks : LaunchOk(j)
    \/ \E j \in DOMAIN tasks : LaunchFail(j)
    \/ \E j \in DOMAIN tasks, dbok \in BOOLEAN : LaunchFinish(j, dbok)
    \/ \E j \in DOMAIN tasks, command \in CommandDicts, ok \in BOOLEAN :
          ExecuteCommand(j, command, ok)

ExecSpec == Init /\ [][ExecNext]_vars

\* The try block of execute_command is entered only with a session: one that
\* was there at the call or one the call launched.
LaunchesFirst ==
    \A j \in DOMAIN tasks :
        (tasks[j].entry = "command" /\ (tasks[j].pc = "command" \/ tasks[j].attempted # <<>>)) =>
            tasks[j].browser_id \in active_browsers

\* A launch failure leaves execute_command as an exception.
LaunchFailurePropagates ==
    \A j \in DOMAIN tasks :
        (tasks[j].entry = "command" /\ tasks[j].abort = "launch") =>
            tasks[j].pc = "raised" /\ ~tasks[j].swallowed

\* No failure of the command leaves execute_command.
CommandFailureSwallowed ==
    \A j \in DOMAIN tasks :
        (tasks[j].entry = "command" /\ tasks[j].pc = "raised") =>
            tasks[j].abort = "launch"

\* C38: execute_command for an identity with no entry in active_browsers
\* first launches a session; a failure of that launch propagates to the
\* caller; every failure of the command itself is swallowed.
C38_LaunchPropagatesCommandSwallowed ==
    /\ LaunchesFirst
    /\ LaunchFailurePropagates
    /\ CommandFailureSwallowed

\* ------------------------------------------- the continuous loop, batch by batch
\* The loop of start_continuous_automation with one action per iteration, so
\* that it can run for ever: the sessions of a batch are over before the next
\* selection, and what a session leaves behind is its writes to its own row.

\* The clock values an iteration may use.
MaxClock == 4

\* How a session ends: its plan ran to the end ("ok", failed commands
\* included, which execute_command swallows), launch_browser raised
\* ("launch"), or an exception left the plan loop ("escape").
SessionOutcomes == {"ok", "launch", "escape"}

\* The store after one run_single_browser_session at time t.
session_store(b, id, outcome, t) ==
    IF outcome = "launch"
    THEN ExceptHandler(b, id, t)
    ELSE LET opened == update_browser_status(b, id, "running")
             body   == IF outcome = "ok"
                       THEN update_browser_last_interaction(opened, id, t)
                       ELSE ExceptHandler(opened, id, t)
         IN  CloseStore(body, id, TRUE)

\* The store and the clock after the sessions of a batch.
RECURSIVE batch_store(_, _, _, _)
batch_store(b, ids, outs, t) ==
    IF ids = <<>>
    THEN [b |-> b, t |-> t]
    ELSE batch_store(session_store(b, Head(ids), outs[Head(ids)], t), Tail(ids), outs,
                     IF outs[Head(ids)] = "ok" THEN t + 1 ELSE t)

\* One iteration of `while self.running`: run_browser_batch selects and runs
\* every session of the batch, then the loop sleeps.
LoopIteration(outs) ==
    /\ sched_pc = "loop_test"
    /\ running
    /\ \E sel \in schedule_browser_batch(browsers, batch_size) :
          LET after == batch_store(browsers, sel, outs, clock)
          IN  /\ after.t <= MaxClock
              /\ browser_ids' = sel
              /\ browsers' = after.b
              /\ clock' = after.t
    /\ sched_pc' = "interval"
    /\ wait' = interval * 60
    /\ UNCHANGED <<active_browsers, running, stop_requested, batch_size, interval, i,
                   tasks, groups, batches, failures, batch_error>>
    /\ UNCHANGED apiVars

ContinuousNext ==
    \/ \E bs \in 1..NumBrowsers : Start(bs, interval_minutes)
    \/ \E outs \in [BrowserIds -> SessionOutcomes] : LoopIteration(outs)
    \/ SleepOver

\* The loop is never stopped, and the event loop runs it whenever it is ready.
ContinuousSpec == Init /\ [][ContinuousNext]_vars /\ WF_vars(ContinuousNext)

\* C35: under the continuous loop every identity with to_interact = true is
\* eventually given a session, whatever the other identities' sessions do.
C35_EveryEligibleServed ==
    \A id \in BrowserIds :
        browsers[id].to_interact => <>(id \in Range(browser_ids))

====
